---- MODULE Spec2Model ----
(***************************************************************************)
(* Event dispatch engine of shopify-webhook-go: the Router (router.go),    *)
(* the WorkerPool with retry (async.go), the in-memory idempotency store   *)
(* (idempotency.go) and the all-in-one HTTP Handler (middleware.go).       *)
(*                                                                         *)
(* The specifications share the variables:                                  *)
(*   SpecRouter, SpecRouterTopics   goroutines calling the Router methods  *)
(*   SpecRouterReentrant            handlers calling the Router methods    *)
(*   SpecGDPR                       RegisterGDPR on a Router               *)
(*   SpecPool and its fair variants a WorkerPool: Submit, workers, retry,  *)
(*                                  Shutdown                               *)
(*   SpecPoolWithCaller             a pool and a direct caller of Dispatch *)
(*   SpecHandler and its variants   HTTP deliveries through Handler        *)
(*   SpecMemoryStore                the MemoryStore used directly          *)
(*   SpecMemoryStoreSweeper         the MemoryStore with its cleanup       *)
(*                                  goroutine, its ticker and Close        *)
(***************************************************************************)
EXTENDS Integers, Sequences, FiniteSets, TLC

\* ------------------------------------------------------------------------
\* Values
\* ------------------------------------------------------------------------

\* Go's nil for a func value / a missing map entry.
Nil == "nil"

\* Two of the Topic constants; any string is routable.
Topics == {"orders/create", "products/update"}

\* Application handler functions (values of type HandlerFunc).
HandlerFuncs == {"f1", "f2"}

\* Failure reasons an application handler can return.
HandlerErrs == {"e1", "e2"}

\* Values of the X-Shopify-Event-Id header.
EventIDs == {"ev1", "ev2"}

\* Goroutines that call the Router's methods.
Threads == {"t1", "t2"}

\* An error value: kind and argument. NoErr is Go's nil error.
Err(kind, arg) == [kind |-> kind, arg |-> arg]

NoErr == Err("nil", "")

\* fmt.Errorf("%w: %s", ErrUnhandledTopic, topic)
ErrUnhandledTopic(topic) == Err("ErrUnhandledTopic", topic)

ErrQueueFull == Err("ErrQueueFull", "")

HandlerErr(e) == Err("handler", e)

\* What a call has produced so far: nothing yet, a panic, or a returned error.
NotReturned == Err("none", "")

Panicked == Err("panic", "")

Event(topic, id) == [Topic |-> topic, EventID |-> id]

RouterEvents == {Event(tp, id) : tp \in Topics, id \in EventIDs}

\* One entry of a call log: an application function invoked with an event
\* (err is NoErr), or an error observer invoked with (event, err).
HandlerCall(fn, event) == [fn |-> fn, event |-> event, err |-> NoErr]

ObserverCall(event, err) == [fn |-> "onError", event |-> event, err |-> err]

VARIABLES
    handlers,   \* Router.handlers: Topic -> HandlerFunc, Nil where absent
    fallback,   \* Router.fallback
    onError,    \* Router.onError is set (WithErrorHandler)
    mu,         \* Router.mu: [writer, readers]
    pc,         \* per thread: position inside the Router method it runs
    loc,        \* per thread: the method's arguments and locals
    calls,      \* per thread: functions the running/last method invoked
    ret,        \* per thread: outcome of the running/last method
    seen,       \* per thread: Router state when Dispatch took the read lock
    queue,      \* WorkerPool.queue: the channel's buffer, oldest first
    queueSize,  \* cap(WorkerPool.queue)
    closed,     \* close(wp.queue) has run
    closing,    \* WorkerPool.closing
    poolOnError,\* WorkerPool.onError is set (WithPoolErrorHandler)
    maxRetries, \* WorkerPool.maxRetries
    baseDelay,  \* WorkerPool.baseDelay, in milliseconds
    wk,         \* per worker goroutine: position, work item, attempt
    sd,         \* the Shutdown call: position, context, result
    items,      \* per Submit call: what happened to the submitted event
    nextSid,    \* number of Submit calls so far + 1
    cfgAsync,   \* handlerConfig.async is set (WithAsyncProcessor)
    cfgDedup,   \* handlerConfig.dedup: "none", a MemoryStore, or a store that can fail
    entries,    \* MemoryStore.entries: event ID -> time stored, NoTime where absent
    now,        \* the clock read by time.Now() and time.Since()
    req,        \* per HTTP delivery: position in Handler's ServeHTTP, calls made
    storeCalls, \* calls made on the MemoryStore directly, in order, with their results
    sw          \* the MemoryStore's cleanup goroutine, its ticker and MemoryStore.done

routerVars == <<handlers, fallback, onError, mu, pc, loc, calls, ret, seen>>

poolVars == <<queue, queueSize, closed, closing, poolOnError, maxRetries, baseDelay,
              wk, sd, items, nextSid>>

handlerVars == <<cfgAsync, cfgDedup, entries, now, req, storeCalls, sw>>

vars == <<routerVars, poolVars, handlerVars>>

\* What the Router's methods leave alone.
notRouterVars == <<poolVars, handlerVars>>

\* What the WorkerPool's methods and goroutines leave alone.
notPoolVars == <<routerVars, handlerVars>>

\* ------------------------------------------------------------------------
\* Router (router.go)
\* ------------------------------------------------------------------------

\* gdpr is RegisterGDPR's GDPRHandlers argument, registered the topics the
\* call has registered so far, and topics the slice Topics returned.
NoLocals == [op |-> "none", topic |-> Nil, h |-> Nil, event |-> Event(Nil, Nil),
             handler |-> Nil, fallback |-> Nil, onError |-> FALSE, err |-> NoErr,
             gdpr |-> <<>>, registered |-> <<>>, topics |-> <<>>]

NoSeen == [handler |-> Nil, fallback |-> Nil]

MuFree == [writer |-> Nil, readers |-> {}]

\* NewRouter(opts...): empty map, no fallback, observer only with the option.
RouterInit ==
    /\ handlers = [tp \in Topics |-> Nil]
    /\ fallback = Nil
    /\ onError \in BOOLEAN
    /\ mu = MuFree
    /\ pc = [t \in Threads |-> "idle"]
    /\ loc = [t \in Threads |-> NoLocals]
    /\ calls = [t \in Threads |-> <<>>]
    /\ ret = [t \in Threads |-> NotReturned]
    /\ seen = [t \in Threads |-> NoSeen]

\* sync.RWMutex: Lock waits for the writer and all readers, RLock for the writer.
CanLock == mu.writer = Nil /\ mu.readers = {}

\* A read lock that does not wait for the writer.
CanRLock_Always == TRUE

CanRLock == mu.writer = Nil

\* Handle, line 31: r.mu.Lock()
HandleLock(t, topic, h) ==
    /\ pc[t] = "idle"
    /\ CanLock
    /\ mu' = [mu EXCEPT !.writer = t]
    /\ pc' = [pc EXCEPT ![t] = "Handle_locked"]
    /\ loc' = [loc EXCEPT ![t] = [NoLocals EXCEPT !.op = "Handle", !.topic = topic, !.h = h]]
    /\ calls' = [calls EXCEPT ![t] = <<>>]
    /\ ret' = [ret EXCEPT ![t] = NotReturned]
    /\ seen' = [seen EXCEPT ![t] = NoSeen]
    /\ UNCHANGED <<handlers, fallback, onError>>
    /\ UNCHANGED notRouterVars

\* Handle that assigns without the duplicate check.
HandleMap_Overwrite(hs, topic, h) == [hs EXCEPT ![topic] = h]

\* Handle, lines 33-37: the map after the call, and whether the call panicked.
HandleMap(hs, topic, h) == IF hs[topic] # Nil THEN hs ELSE [hs EXCEPT ![topic] = h]

HandlePanics(hs, topic) == hs[topic] # Nil

\* Handle, lines 32-37: duplicate check, assignment, and the deferred Unlock,
\* which runs on return and while the panic unwinds.
HandleBody(t) ==
    /\ pc[t] = "Handle_locked"
    /\ handlers' = HandleMap(handlers, loc[t].topic, loc[t].h)
    /\ ret' = [ret EXCEPT ![t] = IF HandlePanics(handlers, loc[t].topic) THEN Panicked ELSE NoErr]
    /\ mu' = [mu EXCEPT !.writer = Nil]
    /\ pc' = [pc EXCEPT ![t] = "idle"]
    /\ UNCHANGED <<fallback, onError, loc, calls, seen>>
    /\ UNCHANGED notRouterVars

\* Fallback, line 42: r.mu.Lock()
FallbackLock(t, h) ==
    /\ pc[t] = "idle"
    /\ CanLock
    /\ mu' = [mu EXCEPT !.writer = t]
    /\ pc' = [pc EXCEPT ![t] = "Fallback_locked"]
    /\ loc' = [loc EXCEPT ![t] = [NoLocals EXCEPT !.op = "Fallback", !.h = h]]
    /\ calls' = [calls EXCEPT ![t] = <<>>]
    /\ ret' = [ret EXCEPT ![t] = NotReturned]
    /\ seen' = [seen EXCEPT ![t] = NoSeen]
    /\ UNCHANGED <<handlers, fallback, onError>>
    /\ UNCHANGED notRouterVars

\* Fallback that keeps a fallback already set.
FallbackSet_KeepFirst(old, h) == IF old # Nil THEN old ELSE h

\* Fallback, line 44: the fallback after the call.
FallbackSet(old, h) == h

\* Fallback, lines 43-45: assignment and the deferred Unlock.
FallbackBody(t) ==
    /\ pc[t] = "Fallback_locked"
    /\ fallback' = FallbackSet(fallback, loc[t].h)
    /\ ret' = [ret EXCEPT ![t] = NoErr]
    /\ mu' = [mu EXCEPT !.writer = Nil]
    /\ pc' = [pc EXCEPT ![t] = "idle"]
    /\ UNCHANGED <<handlers, onError, loc, calls, seen>>
    /\ UNCHANGED notRouterVars

\* Dispatch, line 52: r.mu.RLock()
DispatchRLock(t, event) ==
    /\ pc[t] = "idle"
    /\ CanRLock
    /\ mu' = [mu EXCEPT !.readers = @ \cup {t}]
    /\ pc' = [pc EXCEPT ![t] = "Dispatch_rlocked"]
    /\ loc' = [loc EXCEPT ![t] = [NoLocals EXCEPT !.op = "Dispatch", !.event = event]]
    /\ calls' = [calls EXCEPT ![t] = <<>>]
    /\ ret' = [ret EXCEPT ![t] = NotReturned]
    /\ seen' = [seen EXCEPT ![t] = [handler |-> handlers[event.Topic], fallback |-> fallback]]
    /\ UNCHANGED <<handlers, fallback, onError>>
    /\ UNCHANGED notRouterVars

\* Dispatch that prefers the fallback over the registered handler.
SelectHandler_FallbackFirst(h, fb) == IF fb # Nil THEN fb ELSE h

\* Dispatch that reports an unhandled topic as success.
UnhandledResult_Nil(topic) == NoErr

\* Dispatch, lines 58-64: the function to invoke, Nil when the topic is unhandled.
\* h is the map entry (Nil when ok is false), fb the fallback.
SelectHandler(h, fb) == IF h # Nil THEN h ELSE fb

\* Dispatch, line 62: what an unhandled topic returns.
UnhandledResult(topic) == ErrUnhandledTopic(topic)

\* Dispatch that keeps the read lock until it returns (defer r.mu.RUnlock()).
RUnlockAfterRead_Deferred(m, t) == m

\* Dispatch, line 56: r.mu.RUnlock(), before the handler is chosen and called.
RUnlockAfterRead(m, t) == [m EXCEPT !.readers = @ \ {t}]

\* Dispatch, lines 53-64: the three reads, RUnlock, and the choice of handler.
DispatchRead(t) ==
    /\ pc[t] = "Dispatch_rlocked"
    /\ mu' = RUnlockAfterRead(mu, t)
    /\ LET sel == SelectHandler(handlers[loc[t].event.Topic], fallback) IN
        /\ loc' = [loc EXCEPT ![t].handler = sel, ![t].fallback = fallback,
                              ![t].onError = onError]
        /\ IF sel = Nil
             THEN /\ pc' = [pc EXCEPT ![t] = "idle"]
                  /\ ret' = [ret EXCEPT ![t] = UnhandledResult(loc[t].event.Topic)]
             ELSE /\ pc' = [pc EXCEPT ![t] = "Dispatch_call"]
                  /\ UNCHANGED ret
    /\ UNCHANGED <<handlers, fallback, onError, calls, seen>>
    /\ UNCHANGED notRouterVars

\* Dispatch, line 66: handler(event) is entered.
DispatchInvoke(t) ==
    /\ pc[t] = "Dispatch_call"
    /\ calls' = [calls EXCEPT ![t] = Append(@, HandlerCall(loc[t].handler, loc[t].event))]
    /\ pc' = [pc EXCEPT ![t] = "Dispatch_in_handler"]
    /\ UNCHANGED <<handlers, fallback, onError, mu, loc, ret, seen>>
    /\ UNCHANGED notRouterVars

\* Dispatch that skips the observer.
ObserverDue_Never(err, observer) == FALSE

\* Dispatch that calls the observer whether or not one was configured.
ObserverDue_Always(err, observer) == err # NoErr

\* Dispatch, lines 66-72: after the handler returned err, is the observer called?
ObserverDue(err, observer) == err # NoErr /\ observer

\* Dispatch that reports the error to the observer only, and returns nil.
DispatchResult_Nil(err) == NoErr

\* Dispatch, lines 70 and 72: the value returned for handler result err.
DispatchResult(err) == err

\* Dispatch, lines 66-72: the handler returns err (any outcome the application
\* function can produce).
DispatchHandlerReturn(t, err) ==
    /\ pc[t] = "Dispatch_in_handler"
    /\ loc' = [loc EXCEPT ![t].err = err]
    /\ IF ObserverDue(err, loc[t].onError)
         THEN /\ pc' = [pc EXCEPT ![t] = "Dispatch_onError"]
              /\ UNCHANGED ret
         ELSE /\ pc' = [pc EXCEPT ![t] = "idle"]
              /\ ret' = [ret EXCEPT ![t] = DispatchResult(err)]
    /\ UNCHANGED <<handlers, fallback, onError, mu, calls, seen>>
    /\ UNCHANGED notRouterVars

\* Dispatch, lines 68-70: onError(event, err), then return err.
DispatchOnError(t) ==
    /\ pc[t] = "Dispatch_onError"
    /\ calls' = [calls EXCEPT ![t] = Append(@, ObserverCall(loc[t].event, loc[t].err))]
    /\ ret' = [ret EXCEPT ![t] = DispatchResult(loc[t].err)]
    /\ pc' = [pc EXCEPT ![t] = "idle"]
    /\ UNCHANGED <<handlers, fallback, onError, mu, loc, seen>>
    /\ UNCHANGED notRouterVars

\* Topics, line 77: r.mu.RLock()
TopicsRLock(t) ==
    /\ pc[t] = "idle"
    /\ CanRLock
    /\ mu' = [mu EXCEPT !.readers = @ \cup {t}]
    /\ pc' = [pc EXCEPT ![t] = "Topics_rlocked"]
    /\ loc' = [loc EXCEPT ![t] = [NoLocals EXCEPT !.op = "Topics"]]
    /\ calls' = [calls EXCEPT ![t] = <<>>]
    /\ ret' = [ret EXCEPT ![t] = NotReturned]
    /\ seen' = [seen EXCEPT ![t] = NoSeen]
    /\ UNCHANGED <<handlers, fallback, onError>>
    /\ UNCHANGED notRouterVars

\* The keys of the map.
MapKeys(hs) == {tp \in DOMAIN hs : hs[tp] # Nil}

\* A listing that stops after the first key.
TopicsSlices_FirstOnly(hs) ==
    IF MapKeys(hs) = {} THEN {<<>>} ELSE {<<tp>> : tp \in MapKeys(hs)}

\* Topics, lines 79-83: the slices the loop can build. "for t := range
\* r.handlers" visits every key once, in an order Go does not fix.
TopicsSlices(hs) ==
    {sq \in [1..Cardinality(MapKeys(hs)) -> MapKeys(hs)] :
        \A i, j \in DOMAIN sq : i # j => sq[i] # sq[j]}

\* Topics, lines 78-83: the loop, the return, and the deferred RUnlock.
TopicsBody(t) ==
    /\ pc[t] = "Topics_rlocked"
    /\ \E sq \in TopicsSlices(handlers) : loc' = [loc EXCEPT ![t].topics = sq]
    /\ ret' = [ret EXCEPT ![t] = NoErr]
    /\ mu' = [mu EXCEPT !.readers = @ \ {t}]
    /\ pc' = [pc EXCEPT ![t] = "idle"]
    /\ UNCHANGED <<handlers, fallback, onError, calls, seen>>
    /\ UNCHANGED notRouterVars

HandlerResults == {NoErr} \cup {HandlerErr(e) : e \in HandlerErrs}

RouterNext ==
    \/ \E t \in Threads, tp \in Topics, h \in HandlerFuncs : HandleLock(t, tp, h)
    \/ \E t \in Threads : HandleBody(t)
    \/ \E t \in Threads, h \in HandlerFuncs : FallbackLock(t, h)
    \/ \E t \in Threads : FallbackBody(t)
    \/ \E t \in Threads, ev \in RouterEvents : DispatchRLock(t, ev)
    \/ \E t \in Threads : DispatchRead(t)
    \/ \E t \in Threads : DispatchInvoke(t)
    \/ \E t \in Threads, err \in HandlerResults : DispatchHandlerReturn(t, err)
    \/ \E t \in Threads : DispatchOnError(t)

\* Events dispatched while Topics is under study.
TopicsEvents == {Event(tp, "ev1") : tp \in Topics}

\* The Router's methods, Topics among them.
RouterTopicsNext ==
    \/ \E t \in Threads, tp \in Topics, h \in HandlerFuncs : HandleLock(t, tp, h)
    \/ \E t \in Threads : HandleBody(t)
    \/ \E t \in Threads, h \in HandlerFuncs : FallbackLock(t, h)
    \/ \E t \in Threads : FallbackBody(t)
    \/ \E t \in Threads, ev \in TopicsEvents : DispatchRLock(t, ev)
    \/ \E t \in Threads : DispatchRead(t)
    \/ \E t \in Threads : DispatchInvoke(t)
    \/ \E t \in Threads, err \in HandlerResults : DispatchHandlerReturn(t, err)
    \/ \E t \in Threads : DispatchOnError(t)
    \/ \E t \in Threads : TopicsRLock(t)
    \/ \E t \in Threads : TopicsBody(t)

\* The goroutine t1 runs Dispatch; "t2" stands for the calls the invoked
\* handler makes on the same router before it returns. They run on t1's
\* goroutine: the handler does not return while one of them is under way.
InHandler == pc["t1"] = "Dispatch_in_handler"

\* The handler invoked by t1's Dispatch returns err, its own calls on the
\* router having returned.
ReentrantHandlerReturn(err) ==
    /\ pc["t2"] = "idle"
    /\ DispatchHandlerReturn("t1", err)

\* A router configured and used by one goroutine, whose handlers call the
\* router's methods themselves.
ReentrantNext ==
    \/ \E tp \in Topics, h \in HandlerFuncs : HandleLock("t1", tp, h)
    \/ HandleBody("t1")
    \/ \E h \in HandlerFuncs : FallbackLock("t1", h)
    \/ FallbackBody("t1")
    \/ \E ev \in TopicsEvents : DispatchRLock("t1", ev)
    \/ DispatchRead("t1")
    \/ DispatchInvoke("t1")
    \/ \E err \in HandlerResults : ReentrantHandlerReturn(err)
    \/ DispatchOnError("t1")
    \/ InHandler /\ \E tp \in Topics, h \in HandlerFuncs : HandleLock("t2", tp, h)
    \/ InHandler /\ HandleBody("t2")
    \/ InHandler /\ \E h \in HandlerFuncs : FallbackLock("t2", h)
    \/ InHandler /\ FallbackBody("t2")
    \/ InHandler /\ TopicsRLock("t2")
    \/ InHandler /\ TopicsBody("t2")
    \/ InHandler /\ \E ev \in TopicsEvents : DispatchRLock("t2", ev)
    \/ InHandler /\ DispatchRead("t2")
    \/ InHandler /\ DispatchInvoke("t2")
    \/ InHandler /\ \E err \in HandlerResults : DispatchHandlerReturn("t2", err)
    \/ InHandler /\ DispatchOnError("t2")

\* ------------------------------------------------------------------------
\* RegisterGDPR (gdpr.go)
\* ------------------------------------------------------------------------

TopicCustomersDataRequest == "customers/data_request"

TopicCustomersRedact == "customers/redact"

TopicShopRedact == "shop/redact"

\* The three mandatory topics, in the order RegisterGDPR registers them.
GDPRTopics == <<TopicCustomersDataRequest, TopicCustomersRedact, TopicShopRedact>>

\* The fields of GDPRHandlers, in the same order: the callback of each.
GDPRCallbacks == <<"OnCustomerDataRequest", "OnCustomerRedact", "OnShopRedact">>

\* The closures RegisterGDPR passes to Handle: each decodes the payload and
\* calls its field's callback.
GDPRWrappers == <<"func(OnCustomerDataRequest)", "func(OnCustomerRedact)", "func(OnShopRedact)">>

GDPRIndex == 1..3

\* Values of type GDPRHandlers: each field nil or set.
GDPRHandlers == {<<a, b, c>> : a \in {Nil, GDPRCallbacks[1]}, b \in {Nil, GDPRCallbacks[2]},
                               c \in {Nil, GDPRCallbacks[3]}}

\* Topics of the router RegisterGDPR is used on.
GDPRRouterTopics == {"orders/create", TopicCustomersDataRequest, TopicCustomersRedact,
                     TopicShopRedact}

GDPREvents == {Event(tp, "ev1") : tp \in GDPRRouterTopics}

\* json.Unmarshal's error for a body that does not decode into the payload.
ErrUnmarshal == Err("json", "")

\* A check of the first field only.
NilField_FirstOnly(hs) == hs[1] = Nil

\* RegisterGDPR, lines 53-61: some field is nil.
NilField(hs) == \E k \in GDPRIndex : hs[k] = Nil

\* The field whose closure w is, 0 if w is no such closure.
WrapperIndex(w) ==
    IF \E k \in GDPRIndex : GDPRWrappers[k] = w
      THEN CHOOSE k \in GDPRIndex : GDPRWrappers[k] = w
      ELSE 0

\* NewRouter(opts...) for the router RegisterGDPR is used on.
GDPRRouterInit ==
    /\ handlers = [tp \in GDPRRouterTopics |-> Nil]
    /\ fallback = Nil
    /\ onError \in BOOLEAN
    /\ mu = MuFree
    /\ pc = [t \in Threads |-> "idle"]
    /\ loc = [t \in Threads |-> NoLocals]
    /\ calls = [t \in Threads |-> <<>>]
    /\ ret = [t \in Threads |-> NotReturned]
    /\ seen = [t \in Threads |-> NoSeen]

\* RegisterGDPR, lines 53-61: the three nil checks, each panicking.
RegisterGDPRCheck(t, hs) ==
    /\ pc[t] = "idle"
    /\ loc' = [loc EXCEPT ![t] = [NoLocals EXCEPT !.op = "RegisterGDPR", !.gdpr = hs]]
    /\ calls' = [calls EXCEPT ![t] = <<>>]
    /\ seen' = [seen EXCEPT ![t] = NoSeen]
    /\ IF NilField(hs)
         THEN /\ ret' = [ret EXCEPT ![t] = Panicked]
              /\ pc' = [pc EXCEPT ![t] = "idle"]
         ELSE /\ ret' = [ret EXCEPT ![t] = NotReturned]
              /\ pc' = [pc EXCEPT ![t] = "GDPR_handle"]
    /\ UNCHANGED <<handlers, fallback, onError, mu>>
    /\ UNCHANGED notRouterVars

\* RegisterGDPR, lines 63, 71, 79: the next router.Handle call takes the lock.
RegisterGDPRLock(t) ==
    /\ pc[t] = "GDPR_handle"
    /\ CanLock
    /\ mu' = [mu EXCEPT !.writer = t]
    /\ pc' = [pc EXCEPT ![t] = "GDPR_locked"]
    /\ LET k == Len(loc[t].registered) + 1 IN
        loc' = [loc EXCEPT ![t].topic = GDPRTopics[k], ![t].h = GDPRWrappers[k]]
    /\ UNCHANGED <<handlers, fallback, onError, calls, ret, seen>>
    /\ UNCHANGED notRouterVars

\* RegisterGDPR, lines 63-85: the body of that Handle call. Its panic ends
\* RegisterGDPR; after the third registration RegisterGDPR returns.
RegisterGDPRHandle(t) ==
    /\ pc[t] = "GDPR_locked"
    /\ handlers' = HandleMap(handlers, loc[t].topic, loc[t].h)
    /\ mu' = [mu EXCEPT !.writer = Nil]
    /\ IF HandlePanics(handlers, loc[t].topic)
         THEN /\ ret' = [ret EXCEPT ![t] = Panicked]
              /\ pc' = [pc EXCEPT ![t] = "idle"]
              /\ UNCHANGED loc
         ELSE /\ loc' = [loc EXCEPT ![t].registered = Append(@, loc[t].topic)]
              /\ IF Len(loc[t].registered) + 1 = Len(GDPRTopics)
                   THEN /\ ret' = [ret EXCEPT ![t] = NoErr]
                        /\ pc' = [pc EXCEPT ![t] = "idle"]
                   ELSE /\ pc' = [pc EXCEPT ![t] = "GDPR_handle"]
                        /\ UNCHANGED ret
    /\ UNCHANGED <<fallback, onError, calls, seen>>
    /\ UNCHANGED notRouterVars

\* The closures, lines 64-68, 72-76, 80-84: event.Unmarshal(&payload); its
\* error is returned, otherwise the callback is entered.
GDPRWrapperUnmarshal(t, decodes) ==
    /\ pc[t] = "Dispatch_in_handler"
    /\ WrapperIndex(loc[t].handler) # 0
    /\ IF decodes
         THEN /\ calls' = [calls EXCEPT ![t] =
                    Append(@, HandlerCall(GDPRCallbacks[WrapperIndex(loc[t].handler)],
                                          loc[t].event))]
              /\ pc' = [pc EXCEPT ![t] = "GDPR_in_callback"]
              /\ UNCHANGED <<handlers, fallback, onError, mu, loc, ret, seen>>
              /\ UNCHANGED notRouterVars
         ELSE DispatchHandlerReturn(t, ErrUnmarshal)

\* The closures, lines 68, 76, 84, and Dispatch, lines 66-72: the callback
\* returns err, the closure returns it, Dispatch goes on.
GDPRCallbackReturn(t, err) ==
    /\ pc[t] = "GDPR_in_callback"
    /\ loc' = [loc EXCEPT ![t].err = err]
    /\ IF ObserverDue(err, loc[t].onError)
         THEN /\ pc' = [pc EXCEPT ![t] = "Dispatch_onError"]
              /\ UNCHANGED ret
         ELSE /\ pc' = [pc EXCEPT ![t] = "idle"]
              /\ ret' = [ret EXCEPT ![t] = DispatchResult(err)]
    /\ UNCHANGED <<handlers, fallback, onError, mu, calls, seen>>
    /\ UNCHANGED notRouterVars

\* Dispatch, lines 66-72, for a handler the application registered itself.
PlainHandlerReturn(t, err) ==
    /\ WrapperIndex(loc[t].handler) = 0
    /\ DispatchHandlerReturn(t, err)

GDPRNext ==
    \/ \E t \in Threads, tp \in GDPRRouterTopics : HandleLock(t, tp, "f1")
    \/ \E t \in Threads : HandleBody(t)
    \/ \E t \in Threads, hs \in GDPRHandlers : RegisterGDPRCheck(t, hs)
    \/ \E t \in Threads : RegisterGDPRLock(t)
    \/ \E t \in Threads : RegisterGDPRHandle(t)
    \/ \E t \in Threads, ev \in GDPREvents : DispatchRLock(t, ev)
    \/ \E t \in Threads : DispatchRead(t)
    \/ \E t \in Threads : DispatchInvoke(t)
    \/ \E t \in Threads, decodes \in BOOLEAN : GDPRWrapperUnmarshal(t, decodes)
    \/ \E t \in Threads, err \in HandlerResults : GDPRCallbackReturn(t, err)
    \/ \E t \in Threads, err \in HandlerResults : PlainHandlerReturn(t, err)
    \/ \E t \in Threads : DispatchOnError(t)

\* ------------------------------------------------------------------------
\* WorkerPool (async.go)
\* ------------------------------------------------------------------------

\* Largest worker count, queue capacity and retry limit a pool is built with,
\* and the number of Submit calls followed.
MaxWorkers == 2

MaxQueueSize == 1

MaxRetryLimit == 2

MaxSubmits == 2

\* NewWorkerPool: baseDelay: 500 * time.Millisecond
DefaultBaseDelay == 500

Workers == 1..MaxWorkers

Sids == 1..MaxSubmits

PoolEvents == {Event(tp, "ev1") : tp \in Topics}

\* context.DeadlineExceeded, returned by ctx.Err()
ErrDeadlineExceeded == Err("DeadlineExceeded", "")

\* type work struct: the event (the router is the one Router of the model);
\* sid names the Submit call that made it.
Work(ev, sid) == [event |-> ev, sid |-> sid]

NoWork == Work(Event(Nil, Nil), 0)

WorkerAt(p) == [pc |-> p, item |-> NoWork, attempt |-> 0]

\* What has happened to the event of one Submit call: its state, the number
\* of Router.Dispatch calls and of application handler invocations made for
\* it, how many attempts failed, the error of the latest attempt, the errors
\* passed to the pool's and the number passed to the router's observer, and
\* the backoff sleeps taken.
NoItem == [event |-> Event(Nil, Nil), state |-> "none", dispatches |-> 0, invoked |-> 0,
           fails |-> 0, lastErr |-> NoErr, poolObs |-> <<>>, routerObs |-> 0,
           sleeps |-> <<>>]

NoShutdown == [pc |-> "none", deadline |-> FALSE, expired |-> FALSE, done |-> FALSE,
               result |-> NotReturned, busyAtExpiry |-> FALSE]

\* A pool that was never built (the Router alone is under study).
PoolAbsent ==
    /\ queue = <<>>
    /\ queueSize = 0
    /\ closed = FALSE
    /\ closing = FALSE
    /\ poolOnError = FALSE
    /\ maxRetries = 0
    /\ baseDelay = DefaultBaseDelay
    /\ wk = [w \in Workers |-> WorkerAt("absent")]
    /\ sd = NoShutdown
    /\ items = [i \in Sids |-> NoItem]
    /\ nextSid = 1

\* NewWorkerPool(workers, queueSize, opts...): the goroutines started, an
\* empty channel of the given capacity, the options applied.
NewWorkerPool(workers, size, observer, retries) ==
    /\ queue = <<>>
    /\ queueSize = size
    /\ closed = FALSE
    /\ closing = FALSE
    /\ poolOnError = observer
    /\ maxRetries = retries
    /\ baseDelay = DefaultBaseDelay
    /\ wk = [w \in Workers |-> IF w <= workers THEN WorkerAt("recv") ELSE WorkerAt("absent")]
    /\ sd = NoShutdown
    /\ items = [i \in Sids |-> NoItem]
    /\ nextSid = 1

\* Any pool of 1..MaxWorkers workers, capacity 0..MaxQueueSize, retry limit
\* 0..MaxRetryLimit, with or without an observer.
PoolInit ==
    \E n \in 1..MaxWorkers, size \in 0..MaxQueueSize, observer \in BOOLEAN,
       retries \in 0..MaxRetryLimit :
        NewWorkerPool(n, size, observer, retries)

\* A Router as it is after startup: one topic registered, no fallback, no
\* method running.
RouterStarted ==
    /\ handlers = [tp \in Topics |-> IF tp = "orders/create" THEN "f1" ELSE Nil]
    /\ fallback = Nil
    /\ onError \in BOOLEAN
    /\ mu = MuFree
    /\ pc = [t \in Threads |-> "idle"]
    /\ loc = [t \in Threads |-> NoLocals]
    /\ calls = [t \in Threads |-> <<>>]
    /\ ret = [t \in Threads |-> NotReturned]
    /\ seen = [t \in Threads |-> NoSeen]

\* A channel that takes every worker for a waiting receiver.
ParkedWorkers_All == Workers

\* Workers blocked in the channel receive of "for w := range wp.queue".
ParkedWorkers == {w \in Workers : wk[w].pc = "parked"}

\* A Submit that never takes the default case.
SubmitOutcome_NeverDrop(isClosed, receiverParked, len, cap) ==
    IF isClosed THEN "panic"
    ELSE IF receiverParked THEN "handoff"
    ELSE "enqueue"

\* A channel whose buffer takes one item more than its capacity.
SubmitOutcome_OneOver(isClosed, receiverParked, len, cap) ==
    IF isClosed THEN "panic"
    ELSE IF receiverParked THEN "handoff"
    ELSE IF len <= cap THEN "enqueue"
    ELSE "drop"

\* Submit, lines 102-108: what the select does. A send on a closed channel
\* panics; a send proceeds when a receiver is blocked on the channel or the
\* buffer has room; otherwise the default case runs.
SubmitOutcome(isClosed, receiverParked, len, cap) ==
    IF isClosed THEN "panic"
    ELSE IF receiverParked THEN "handoff"
    ELSE IF len < cap THEN "enqueue"
    ELSE "drop"

\* Submit, lines 105-107: the pool observer's calls for a dropped event.
DropObserved(observer) == IF observer THEN <<ErrQueueFull>> ELSE <<>>

\* Submit, lines 101-109: its effect on the pool.
SubmitCall(ev) ==
    /\ nextSid <= MaxSubmits
    /\ nextSid' = nextSid + 1
    /\ LET sid == nextSid
           outcome == SubmitOutcome(closed, ParkedWorkers # {}, Len(queue), queueSize)
           item(st) == [NoItem EXCEPT !.event = ev, !.state = st]
       IN
        CASE outcome = "panic" ->
                /\ items' = [items EXCEPT ![sid] = item("panicked")]
                /\ UNCHANGED <<queue, wk>>
          [] outcome = "handoff" ->
                /\ \E w \in ParkedWorkers :
                       wk' = [wk EXCEPT ![w] = [pc |-> "dispatch", item |-> Work(ev, sid),
                                                attempt |-> 0]]
                /\ items' = [items EXCEPT ![sid] = item("processing")]
                /\ UNCHANGED queue
          [] outcome = "enqueue" ->
                /\ queue' = Append(queue, Work(ev, sid))
                /\ items' = [items EXCEPT ![sid] = item("queued")]
                /\ UNCHANGED wk
          [] outcome = "drop" ->
                /\ items' = [items EXCEPT ![sid] =
                                [item("dropped") EXCEPT !.poolObs = DropObserved(poolOnError)]]
                /\ UNCHANGED <<queue, wk>>
    /\ UNCHANGED <<queueSize, closed, closing, poolOnError, maxRetries, baseDelay, sd>>

\* Submit called by the application.
Submit(ev) ==
    /\ SubmitCall(ev)
    /\ UNCHANGED notPoolVars

\* worker, line 73: "for w := range wp.queue" takes the oldest buffered item,
\* ends the loop (wg.Done() runs, deferred) once the channel is closed and
\* empty, and blocks otherwise.
WorkerRecv(w) ==
    /\ wk[w].pc = "recv"
    /\ IF queue # <<>>
         THEN /\ wk' = [wk EXCEPT ![w] = [pc |-> "dispatch", item |-> Head(queue),
                                          attempt |-> 0]]
              /\ queue' = Tail(queue)
              /\ items' = [items EXCEPT ![Head(queue).sid].state = "processing"]
         ELSE /\ wk' = [wk EXCEPT ![w] = WorkerAt(IF closed THEN "exited" ELSE "parked")]
              /\ UNCHANGED <<queue, items>>
    /\ UNCHANGED <<queueSize, closed, closing, poolOnError, maxRetries, baseDelay, sd, nextSid>>
    /\ UNCHANGED notPoolVars

\* worker, lines 72-73: close(wp.queue) wakes a blocked receiver; the loop ends.
WorkerWokenByClose(w) ==
    /\ wk[w].pc = "parked"
    /\ closed
    /\ wk' = [wk EXCEPT ![w] = WorkerAt("exited")]
    /\ UNCHANGED <<queue, queueSize, closed, closing, poolOnError, maxRetries, baseDelay,
                   sd, items, nextSid>>
    /\ UNCHANGED notPoolVars

\* processWithRetry that gives up one attempt early.
RetryDecision_OneShort(err, attempt, limit) ==
    IF err = NoErr THEN "return" ELSE IF attempt + 1 < limit THEN "sleep" ELSE "final"

\* processWithRetry that does not return on success.
RetryDecision_NoReturn(err, attempt, limit) ==
    IF attempt < limit THEN "sleep" ELSE IF err = NoErr THEN "return" ELSE "final"

\* processWithRetry, lines 81-95: what follows an attempt that returned err.
RetryDecision(err, attempt, limit) ==
    IF err = NoErr THEN "return" ELSE IF attempt < limit THEN "sleep" ELSE "final"

\* 2^n
RECURSIVE Pow2(_)
Pow2(n) == IF n = 0 THEN 1 ELSE 2 * Pow2(n - 1)

\* A backoff that does not grow.
Delay_Constant(base, attempt) == base

\* processWithRetry, line 87: baseDelay * time.Duration(math.Pow(2, float64(attempt)))
Delay(base, attempt) == base * Pow2(attempt)

\* A pool observer that is told of handler failures only.
FinalObserved_HandlerErrorsOnly(observer, err) ==
    IF observer /\ err.kind = "handler" THEN <<err>> ELSE <<>>

\* processWithRetry, lines 93-95: the pool observer's call after the last attempt.
FinalObserved(observer, err) == IF observer THEN <<err>> ELSE <<>>

\* A worker that goes back to the receive after a failed attempt instead of
\* sleeping and retrying.
AfterAttempt_ReleaseOnRetry(w, err, it) ==
    LET sid == wk[w].item.sid
        rec == [it EXCEPT !.lastErr = err, !.fails = @ + (IF err = NoErr THEN 0 ELSE 1)]
    IN
    /\ wk' = [wk EXCEPT ![w] = WorkerAt("recv")]
    /\ items' = [items EXCEPT ![sid] =
                    [rec EXCEPT !.state = IF err = NoErr THEN "succeeded"
                                          ELSE IF wk[w].attempt < maxRetries THEN "retrying"
                                          ELSE "failed"]]

\* processWithRetry, lines 81-96, for worker w whose attempt returned err;
\* it is the item's record with this attempt counted.
AfterAttempt(w, err, it) ==
    LET sid == wk[w].item.sid
        decision == RetryDecision(err, wk[w].attempt, maxRetries)
        rec == [it EXCEPT !.lastErr = err, !.fails = @ + (IF err = NoErr THEN 0 ELSE 1)]
    IN
    CASE decision = "return" ->
            /\ wk' = [wk EXCEPT ![w] = WorkerAt("recv")]
            /\ items' = [items EXCEPT ![sid] = [rec EXCEPT !.state = "succeeded"]]
      [] decision = "sleep" ->
            /\ wk' = [wk EXCEPT ![w].pc = "sleep"]
            /\ items' = [items EXCEPT ![sid] =
                            [rec EXCEPT !.state = "retrying",
                                        !.sleeps = Append(@, Delay(baseDelay, wk[w].attempt))]]
      [] decision = "final" ->
            /\ wk' = [wk EXCEPT ![w] = WorkerAt("recv")]
            /\ items' = [items EXCEPT ![sid] =
                            [rec EXCEPT !.state = "failed",
                                        !.poolObs = @ \o FinalObserved(poolOnError, err)]]

\* processWithRetry, line 80: w.router.Dispatch(w.event) is called. With no
\* handler and no fallback it returns at once; otherwise the handler is
\* entered.
WorkerDispatch(w) ==
    /\ wk[w].pc = "dispatch"
    /\ LET sid == wk[w].item.sid
           topic == wk[w].item.event.Topic
           sel == SelectHandler(handlers[topic], fallback)
           it == [items[sid] EXCEPT !.dispatches = @ + 1, !.state = "processing"]
       IN
        IF sel = Nil
          THEN AfterAttempt(w, UnhandledResult(topic), it)
          ELSE /\ wk' = [wk EXCEPT ![w].pc = "in_handler"]
               /\ items' = [items EXCEPT ![sid] = [it EXCEPT !.invoked = @ + 1]]
    /\ UNCHANGED <<queue, queueSize, closed, closing, poolOnError, maxRetries, baseDelay,
                   sd, nextSid>>
    /\ UNCHANGED notPoolVars

\* processWithRetry, lines 80-96: the handler returns res; Dispatch calls the
\* router's observer if due and returns.
WorkerHandlerReturn(w, res) ==
    /\ wk[w].pc = "in_handler"
    /\ LET sid == wk[w].item.sid
           it == [items[sid] EXCEPT !.routerObs = @ + (IF ObserverDue(res, onError) THEN 1 ELSE 0)]
       IN AfterAttempt(w, DispatchResult(res), it)
    /\ UNCHANGED <<queue, queueSize, closed, closing, poolOnError, maxRetries, baseDelay,
                   sd, nextSid>>
    /\ UNCHANGED notPoolVars

\* processWithRetry, lines 88-89: time.Sleep(delay) is over; next attempt.
WorkerWake(w) ==
    /\ wk[w].pc = "sleep"
    /\ wk' = [wk EXCEPT ![w].pc = "dispatch", ![w].attempt = @ + 1]
    /\ UNCHANGED <<queue, queueSize, closed, closing, poolOnError, maxRetries, baseDelay,
                   sd, items, nextSid>>
    /\ UNCHANGED notPoolVars

\* A WaitGroup whose Done is never called.
WgCount_NoDone == Cardinality({w \in Workers : wk[w].pc # "absent"})

\* A WaitGroup that counts idle workers only.
WgCount_IdleOnly == Cardinality({w \in Workers : wk[w].pc \in {"recv", "parked"}})

\* sync.WaitGroup counter: workers started and not yet returned.
WgCount == Cardinality({w \in Workers : wk[w].pc \notin {"absent", "exited"}})

\* Workers holding a work item: in Dispatch, in the handler or in the backoff sleep.
BusyWorkers == {w \in Workers : wk[w].pc \in {"dispatch", "in_handler", "sleep"}}

\* A select that answers nil whatever case ran.
SelectResult_AlwaysNil(case) == NoErr

\* Shutdown, lines 121-126: what the select's case returns.
SelectResult(case) == IF case = "done" THEN NoErr ELSE ErrDeadlineExceeded

\* Shutdown blocked in its select is woken by the close of a channel of one
\* of its cases, and runs that case.
SelectWoken(s, case) ==
    IF s.pc = "blocked"
      THEN [s EXCEPT !.pc = "returned", !.result = SelectResult(case)]
      ELSE s

\* Shutdown, lines 114-120: closing is set, the channel closed, the waiting
\* goroutine started. The context may or may not carry a deadline.
ShutdownClose(withDeadline) ==
    /\ sd.pc = "none"
    /\ closing' = TRUE
    /\ closed' = TRUE
    /\ sd' = [NoShutdown EXCEPT !.pc = "waiting", !.deadline = withDeadline]
    /\ UNCHANGED <<queue, queueSize, poolOnError, maxRetries, baseDelay, wk, items, nextSid>>
    /\ UNCHANGED notPoolVars

\* Shutdown, lines 117-120: wp.wg.Wait() returns, close(done).
WaiterDone ==
    /\ sd.pc # "none"
    /\ ~sd.done
    /\ WgCount = 0
    /\ sd' = SelectWoken([sd EXCEPT !.done = TRUE], "done")
    /\ UNCHANGED <<queue, queueSize, closed, closing, poolOnError, maxRetries, baseDelay,
                   wk, items, nextSid>>
    /\ UNCHANGED notPoolVars

\* The context's deadline passes: ctx.Done() is closed.
CtxExpire ==
    /\ sd.pc # "none"
    /\ sd.deadline
    /\ ~sd.expired
    /\ sd' = SelectWoken([sd EXCEPT !.expired = TRUE, !.busyAtExpiry = BusyWorkers # {}],
                         "ctx")
    /\ UNCHANGED <<queue, queueSize, closed, closing, poolOnError, maxRetries, baseDelay,
                   wk, items, nextSid>>
    /\ UNCHANGED notPoolVars

\* Shutdown, line 121: the select is reached with no case ready and blocks.
ShutdownBlock ==
    /\ sd.pc = "waiting"
    /\ ~sd.done
    /\ ~sd.expired
    /\ sd' = [sd EXCEPT !.pc = "blocked"]
    /\ UNCHANGED <<queue, queueSize, closed, closing, poolOnError, maxRetries, baseDelay,
                   wk, items, nextSid>>
    /\ UNCHANGED notPoolVars

\* Shutdown, lines 121-126: the select is reached with a case ready and runs
\* one of the ready cases.
ShutdownReturn ==
    /\ sd.pc = "waiting"
    /\ \E case \in {"done", "ctx"} :
        /\ IF case = "done" THEN sd.done ELSE sd.expired
        /\ sd' = [sd EXCEPT !.pc = "returned", !.result = SelectResult(case)]
    /\ UNCHANGED <<queue, queueSize, closed, closing, poolOnError, maxRetries, baseDelay,
                   wk, items, nextSid>>
    /\ UNCHANGED notPoolVars

PoolNext ==
    \/ \E ev \in PoolEvents : Submit(ev)
    \/ \E w \in Workers : WorkerRecv(w)
    \/ \E w \in Workers : WorkerWokenByClose(w)
    \/ \E w \in Workers : WorkerDispatch(w)
    \/ \E w \in Workers, res \in HandlerResults : WorkerHandlerReturn(w, res)
    \/ \E w \in Workers : WorkerWake(w)
    \/ \E d \in BOOLEAN : ShutdownClose(d)
    \/ WaiterDone
    \/ CtxExpire
    \/ ShutdownBlock
    \/ ShutdownReturn

\* ------------------------------------------------------------------------
\* MemoryStore (idempotency.go) and Handler (middleware.go, verify.go)
\* ------------------------------------------------------------------------

\* Number of HTTP deliveries followed, the store's TTL and the last clock
\* value, in clock ticks. The TTL is at least two ticks: cleanup runs every
\* ttl / 2, which must be a positive duration.
MaxRequests == 2

TTL == 2

MaxTime == 3

Requests == 1..MaxRequests

\* No map entry / no time recorded.
NoTime == -1

\* Values of the X-Shopify-Hmac-Sha256 header: absent, not the body's HMAC,
\* the body's HMAC under the secret.
SigHeaders == {"", "bad", "good"}

\* Values of the X-Shopify-Topic and X-Shopify-Event-Id headers ("" is absent).
TopicHeaders == Topics \cup {""}

EventIDHeaders == {"ev1", ""}

ErrInvalidSignature == Err("ErrInvalidSignature", "")

ErrMissingSignature == Err("ErrMissingSignature", "")

ErrMissingTopic == Err("ErrMissingTopic", "")

\* The error of a failing IdempotencyStore call.
ErrStore == Err("store", "")

\* VerifySignature, lines 20-29: the signature must equal the expected one.
VerifySignature(signature) == IF signature = "good" THEN NoErr ELSE ErrInvalidSignature

\* VerifyRequest, lines 40-56 (the body is readable).
VerifyRequest(signature) ==
    IF signature = "" THEN ErrMissingSignature ELSE VerifySignature(signature)

\* A parser that accepts a request without topic header.
ParseMetadataErr_TopicOptional(topic, signature) ==
    IF signature = "" THEN ErrMissingSignature ELSE NoErr

\* ParseMetadata, lines 305-332: the error, and the event's metadata.
ParseMetadataErr(topic, signature) ==
    IF topic = "" THEN ErrMissingTopic
    ELSE IF signature = "" THEN ErrMissingSignature
    ELSE NoErr

\* A store whose entries expire one tick early.
MemExists_ExpiresEarly(es, t, id) ==
    IF es[id] = NoTime THEN FALSE
    ELSE IF t - es[id] >= TTL THEN FALSE
    ELSE TRUE

\* MemoryStore.Exists, lines 51-62.
MemExists(es, t, id) ==
    IF es[id] = NoTime THEN FALSE
    ELSE IF t - es[id] > TTL THEN FALSE
    ELSE TRUE

\* A store that keeps the time of the first Store of an id.
MemStore_KeepFirst(es, t, id) == IF es[id] = NoTime THEN [es EXCEPT ![id] = t] ELSE es

\* MemoryStore.Store, lines 65-70.
MemStore(es, t, id) == [es EXCEPT ![id] = t]

\* A sweeper that empties the map.
MemSweep_Everything(es, t) == [id \in DOMAIN es |-> NoTime]

\* A sweeper that deletes entries as soon as their age reaches the TTL.
MemSweep_Eager(es, t) == [id \in DOMAIN es |-> IF es[id] # NoTime /\ t - es[id] >= TTL THEN NoTime ELSE es[id]]

\* cleanup, lines 83-90: one pass of the sweeper.
MemSweep(es, t) == [id \in DOMAIN es |-> IF es[id] # NoTime /\ t - es[id] > TTL THEN NoTime ELSE es[id]]

ExistsResult(processed, err) == [processed |-> processed, err |-> err]

NoExists == ExistsResult(FALSE, NotReturned)

\* IdempotencyStore.Exists: a MemoryStore answers from its map; another
\* implementation may also fail, with either boolean.
ExistsResults(id) ==
    {ExistsResult(MemExists(entries, now, id), NoErr)}
        \cup (IF cfgDedup = "faulty"
                THEN {ExistsResult(b, ErrStore) : b \in BOOLEAN}
                ELSE {})

\* IdempotencyStore.Store: the errors it can return.
StoreResults == {NoErr} \cup (IF cfgDedup = "faulty" THEN {ErrStore} ELSE {})

\* Handler that trusts the boolean of a failed Exists call.
IsDuplicate_IgnoresError(processed, err) == processed

\* Handler that treats every delivery as new.
IsDuplicate_Never(processed, err) == FALSE

\* Handler, line 114: the delivery is a duplicate.
IsDuplicate(processed, err) == err = NoErr /\ processed

\* One delivery: the entry point serving it, its signature and topic headers,
\* the event parsed from it, the status written, the calls made for it in
\* order, what Exists returned, when Store succeeded, the deliveries that
\* had returned when it arrived, the number of its Submit call (0: none), and
\* what its Router.Dispatch call returned.
NoReq == [pc |-> "new", via |-> Nil, sig |-> Nil, topic |-> Nil,
          event |-> Event(Nil, Nil), status |-> 0, log |-> <<>>,
          exists |-> NoExists, storeAt |-> NoTime, prior |-> {}, sid |-> 0,
          derr |-> NotReturned]

\* Handler that returns after the hand-off, without Store.
AfterHandoff_SkipStore(dedup) == "done"

\* Handler, lines 131-134: what follows Submit or Dispatch.
AfterHandoff(dedup) == IF dedup = "none" THEN "done" ELSE "store"

\* The cleanup goroutine: its position, the time of the ticker's next tick,
\* whether ticker.C holds a tick, and whether MemoryStore.done is closed.
\* NoSweeper: the goroutine is not followed step by step; its passes are the
\* Sweep action, taken at any time.
NoSweeper == [pc |-> "none", next |-> 0, tick |-> FALSE, done |-> FALSE]

\* Handler(secret, router, opts...) with or without an async processor and a
\* dedup store; NewMemoryStore(ttl) starts empty.
HandlerInit ==
    /\ cfgAsync \in BOOLEAN
    /\ cfgDedup \in {"none", "memory", "faulty"}
    /\ entries = [id \in EventIDHeaders |-> NoTime]
    /\ now = 0
    /\ req = [r \in Requests |-> NoReq]
    /\ storeCalls = <<>>
    /\ sw = NoSweeper

\* No Handler was built.
HandlerAbsent ==
    /\ cfgAsync = FALSE
    /\ cfgDedup = "none"
    /\ entries = [id \in EventIDHeaders |-> NoTime]
    /\ now = 0
    /\ req = [r \in Requests |-> NoReq]
    /\ storeCalls = <<>>
    /\ sw = NoSweeper

\* Handler, lines 94-109: verification and parsing of an arriving request.
\* Deliveries are numbered in their order of arrival.
ReqArrive(r, signature, topic, id) ==
    /\ req[r].pc = "new"
    /\ \A q \in Requests : q < r => req[q].pc # "new"
    /\ LET arrived == [NoReq EXCEPT !.via = "Handler", !.sig = signature, !.topic = topic]
           done(code) == [arrived EXCEPT !.pc = "done", !.status = code,
                                         !.log = <<"WriteHeader">>]
       IN
        IF VerifyRequest(signature) # NoErr
          THEN req' = [req EXCEPT ![r] = done(401)]
        ELSE IF ParseMetadataErr(topic, signature) # NoErr
          THEN req' = [req EXCEPT ![r] = done(400)]
        ELSE req' = [req EXCEPT ![r] =
                        [arrived EXCEPT !.pc = "check", !.event = Event(topic, id),
                                      !.prior = {q \in Requests : req[q].pc = "done"}]]
    /\ UNCHANGED <<storeCalls, sw, cfgAsync, cfgDedup, entries, now>>
    /\ UNCHANGED <<routerVars, poolVars>>

\* Middleware, lines 46-69: verification and parsing; a request that passes
\* is given to the wrapped handler with the event in its context. Middleware
\* takes neither processor nor store: it is followed in the deployment that
\* has neither.
MwServe(r, signature, topic, id) ==
    /\ ~cfgAsync
    /\ cfgDedup = "none"
    /\ req[r].pc = "new"
    /\ \A q \in Requests : q < r => req[q].pc # "new"
    /\ LET arrived == [NoReq EXCEPT !.via = "Middleware", !.sig = signature, !.topic = topic,
                                    !.pc = "done"]
       IN
        IF VerifyRequest(signature) # NoErr
          THEN req' = [req EXCEPT ![r] = [arrived EXCEPT !.status = 401,
                                                         !.log = <<"WriteHeader">>]]
        ELSE IF ParseMetadataErr(topic, signature) # NoErr
          THEN req' = [req EXCEPT ![r] = [arrived EXCEPT !.status = 400,
                                                         !.log = <<"WriteHeader">>]]
        ELSE req' = [req EXCEPT ![r] = [arrived EXCEPT !.event = Event(topic, id),
                                                       !.log = <<"next.ServeHTTP">>]]
    /\ UNCHANGED <<storeCalls, sw, cfgAsync, cfgDedup, entries, now>>
    /\ UNCHANGED <<routerVars, poolVars>>

\* Handler, lines 111-123: the dedup check, then the 200 response.
ReqCheck(r) ==
    /\ req[r].pc = "check"
    /\ IF cfgDedup = "none"
         THEN req' = [req EXCEPT ![r].pc = "handoff", ![r].status = 200,
                                 ![r].log = <<"WriteHeader">>]
         ELSE \E res \in ExistsResults(req[r].event.EventID) :
                 req' = [req EXCEPT ![r].pc = IF IsDuplicate(res.processed, res.err)
                                                 THEN "done" ELSE "handoff",
                                    ![r].status = 200,
                                    ![r].log = <<"Exists", "WriteHeader">>,
                                    ![r].exists = res]
    /\ UNCHANGED <<storeCalls, sw, cfgAsync, cfgDedup, entries, now>>
    /\ UNCHANGED <<routerVars, poolVars>>

\* Handler, lines 125-129 and 132: Submit or Dispatch. A Submit that panics
\* ends the request; Dispatch's error is discarded.
ReqHandoff(r) ==
    /\ req[r].pc = "handoff"
    /\ LET next == AfterHandoff(cfgDedup) IN
        IF cfgAsync
          THEN /\ SubmitCall(req[r].event)
               /\ req' = [req EXCEPT ![r].pc = IF closed THEN "panicked" ELSE next,
                                     ![r].log = Append(@, "Submit"),
                                     ![r].sid = nextSid]
               /\ UNCHANGED routerVars
          ELSE /\ \E res \in HandlerResults :
                    LET routed == SelectHandler(handlers[req[r].event.Topic], fallback) # Nil
                        observed == routed /\ ObserverDue(res, onError)
                    IN req' = [req EXCEPT ![r].pc = next,
                                          ![r].log = @ \o <<"Dispatch">>
                                                       \o (IF observed THEN <<"onError">> ELSE <<>>),
                                          ![r].derr =
                                              IF routed THEN DispatchResult(res)
                                              ELSE UnhandledResult(req[r].event.Topic)]
               /\ UNCHANGED <<routerVars, poolVars>>
    /\ UNCHANGED <<storeCalls, sw, cfgAsync, cfgDedup, entries, now>>

\* Handler, lines 131-134: Store, its error discarded.
ReqStore(r) ==
    /\ req[r].pc = "store"
    /\ \E err \in StoreResults :
        /\ entries' = IF err = NoErr THEN MemStore(entries, now, req[r].event.EventID)
                      ELSE entries
        /\ req' = [req EXCEPT ![r].pc = "done",
                              ![r].log = Append(@, "Store"),
                              ![r].storeAt = IF err = NoErr THEN now ELSE NoTime]
    /\ UNCHANGED <<storeCalls, sw, cfgAsync, cfgDedup, now>>
    /\ UNCHANGED <<routerVars, poolVars>>

\* Time passes on the store's clock.
Tick ==
    /\ cfgDedup # "none"
    /\ now < MaxTime
    /\ now' = now + 1
    /\ UNCHANGED <<storeCalls, sw, cfgAsync, cfgDedup, entries, req>>
    /\ UNCHANGED <<routerVars, poolVars>>

\* cleanup, lines 82-90: a ticker tick; the sweeper deletes what has expired.
Sweep ==
    /\ cfgDedup # "none"
    /\ entries' = MemSweep(entries, now)
    /\ entries' # entries
    /\ UNCHANGED <<storeCalls, sw, cfgAsync, cfgDedup, now, req>>
    /\ UNCHANGED <<routerVars, poolVars>>

\* Number of direct calls on the MemoryStore that are followed.
MaxStoreCalls == 3

\* One call on the store: the method, its argument, the clock when it ran,
\* what Exists returned, and whether the map held the id when Exists ran.
StoreCallRec(op, id, at, result, present) ==
    [op |-> op, id |-> id, at |-> at, result |-> result, present |-> present]

\* NewMemoryStore(ttl), lines 41-49: an empty map; no Handler, no delivery.
MemoryStoreInit ==
    /\ cfgAsync = FALSE
    /\ cfgDedup = "memory"
    /\ entries = [id \in EventIDHeaders |-> NoTime]
    /\ now = 0
    /\ req = [r \in Requests |-> NoReq]
    /\ storeCalls = <<>>
    /\ sw = NoSweeper

\* MemoryStore.Store(ctx, id), lines 65-70, called by the application.
StoreCall(id) ==
    /\ Len(storeCalls) < MaxStoreCalls
    /\ entries' = MemStore(entries, now, id)
    /\ storeCalls' = Append(storeCalls, StoreCallRec("Store", id, now, TRUE, TRUE))
    /\ UNCHANGED <<sw, cfgAsync, cfgDedup, now, req>>
    /\ UNCHANGED <<routerVars, poolVars>>

\* MemoryStore.Exists(ctx, id), lines 51-62, called by the application.
ExistsCall(id) ==
    /\ Len(storeCalls) < MaxStoreCalls
    /\ storeCalls' = Append(storeCalls,
                            StoreCallRec("Exists", id, now, MemExists(entries, now, id),
                                         entries[id] # NoTime))
    /\ UNCHANGED <<sw, cfgAsync, cfgDedup, entries, now, req>>
    /\ UNCHANGED <<routerVars, poolVars>>

\* A sweeper that runs once per TTL.
CleanupInterval_WholeTTL(ttl) == ttl

\* NewMemoryStore, line 46: the interval given to cleanup, ttl / 2 in
\* integer arithmetic on time.Duration.
CleanupInterval(ttl) == ttl \div 2

\* cleanup, line 78: the goroutine at its select, ticker started.
SweeperStarted(interval) == [pc |-> "select", next |-> interval, tick |-> FALSE, done |-> FALSE]

\* NewMemoryStore(ttl), lines 40-48, with the cleanup goroutine it starts.
MemoryStoreSweeperInit ==
    /\ cfgAsync = FALSE
    /\ cfgDedup = "memory"
    /\ entries = [id \in EventIDHeaders |-> NoTime]
    /\ now = 0
    /\ req = [r \in Requests |-> NoReq]
    /\ storeCalls = <<>>
    /\ sw = SweeperStarted(CleanupInterval(TTL))

\* The ticker is running: started, and ticker.Stop() (deferred, line 79) has
\* not run.
TickerRunning == sw.pc \in {"select", "sweep"}

\* The ticker sends on ticker.C, a channel of capacity one, at every
\* multiple of the interval; a tick finding the channel full is dropped.
TickerFire ==
    /\ TickerRunning
    /\ now = sw.next
    /\ sw' = [sw EXCEPT !.tick = TRUE, !.next = @ + CleanupInterval(TTL)]
    /\ UNCHANGED <<storeCalls, cfgAsync, cfgDedup, entries, now, req>>
    /\ UNCHANGED <<routerVars, poolVars>>

\* cleanup, lines 81-82: the select receives from ticker.C.
SweeperReceive ==
    /\ sw.pc = "select"
    /\ sw.tick
    /\ sw' = [sw EXCEPT !.pc = "sweep", !.tick = FALSE]
    /\ UNCHANGED <<storeCalls, cfgAsync, cfgDedup, entries, now, req>>
    /\ UNCHANGED <<routerVars, poolVars>>

\* cleanup, lines 83-90: one pass under the write lock.
SweeperPass ==
    /\ sw.pc = "sweep"
    /\ entries' = MemSweep(entries, now)
    /\ sw' = [sw EXCEPT !.pc = "select"]
    /\ UNCHANGED <<storeCalls, cfgAsync, cfgDedup, now, req>>
    /\ UNCHANGED <<routerVars, poolVars>>

\* cleanup, lines 91-92: the select receives from the closed s.done; the
\* goroutine returns and the deferred ticker.Stop() runs.
SweeperReturn ==
    /\ sw.pc = "select"
    /\ sw.done
    /\ sw' = [sw EXCEPT !.pc = "exited"]
    /\ UNCHANGED <<storeCalls, cfgAsync, cfgDedup, entries, now, req>>
    /\ UNCHANGED <<routerVars, poolVars>>

\* MemoryStore.Close(), lines 73-75, called once by the application.
CloseCall ==
    /\ sw.pc # "none"
    /\ ~sw.done
    /\ sw' = [sw EXCEPT !.done = TRUE]
    /\ UNCHANGED <<storeCalls, cfgAsync, cfgDedup, entries, now, req>>
    /\ UNCHANGED <<routerVars, poolVars>>

\* Time passes on the store's clock, one unit at a time. The ticker fires on
\* time, and the goroutine deals with a tick (or returns) within the clock
\* unit in which the tick was sent.
TimePasses ==
    /\ now < MaxTime
    /\ TickerRunning => now < sw.next
    /\ sw.pc # "sweep"
    /\ ~(sw.pc = "select" /\ (sw.tick \/ sw.done))
    /\ now' = now + 1
    /\ UNCHANGED <<storeCalls, sw, cfgAsync, cfgDedup, entries, req>>
    /\ UNCHANGED <<routerVars, poolVars>>

MemoryStoreSweeperNext ==
    \/ \E id \in EventIDHeaders : StoreCall(id)
    \/ \E id \in EventIDHeaders : ExistsCall(id)
    \/ TickerFire
    \/ SweeperReceive
    \/ SweeperPass
    \/ SweeperReturn
    \/ CloseCall
    \/ TimePasses

MemoryStoreNext ==
    \/ \E id \in EventIDHeaders : StoreCall(id)
    \/ \E id \in EventIDHeaders : ExistsCall(id)
    \/ Tick
    \/ Sweep

HandlerNext ==
    \/ \E r \in Requests, sg \in SigHeaders, tp \in TopicHeaders, id \in EventIDHeaders :
           ReqArrive(r, sg, tp, id)
    \/ \E r \in Requests, sg \in SigHeaders, tp \in TopicHeaders, id \in EventIDHeaders :
           MwServe(r, sg, tp, id)
    \/ \E r \in Requests : ReqCheck(r)
    \/ \E r \in Requests : ReqHandoff(r)
    \/ \E r \in Requests : ReqStore(r)
    \/ Tick
    \/ Sweep
    \/ \E w \in Workers : WorkerRecv(w)
    \/ \E w \in Workers : WorkerWokenByClose(w)
    \/ \E w \in Workers : WorkerDispatch(w)
    \/ \E w \in Workers, res \in {NoErr, HandlerErr("e1")} : WorkerHandlerReturn(w, res)
    \/ \E w \in Workers : WorkerWake(w)
    \/ cfgAsync /\ ShutdownClose(FALSE)

\* ------------------------------------------------------------------------
\* Specifications
\* ------------------------------------------------------------------------

\* A Router being configured and used by several goroutines.
InitRouter == RouterInit /\ PoolAbsent /\ HandlerAbsent

SpecRouter == InitRouter /\ [][RouterNext]_vars

\* A WorkerPool dispatching to a started Router.
InitPool == RouterStarted /\ PoolInit /\ HandlerAbsent

SpecPool == InitPool /\ [][PoolNext]_vars

\* The scheduler runs every goroutine that can run, handlers terminate and
\* sleeps end: no worker step stays enabled for ever without being taken.
WorkerFairness ==
    \A w \in Workers :
        /\ WF_vars(WorkerRecv(w))
        /\ WF_vars(WorkerWokenByClose(w))
        /\ WF_vars(WorkerDispatch(w))
        /\ WF_vars(\E res \in HandlerResults : WorkerHandlerReturn(w, res))
        /\ WF_vars(WorkerWake(w))

SpecPoolFair == InitPool /\ [][PoolNext]_vars /\ WorkerFairness

\* The scheduler also runs the goroutine Shutdown started: once wg.Wait()
\* can return it does, and done is closed.
ShutdownFairness == WorkerFairness /\ WF_vars(WaiterDone)

SpecPoolShutdownFair == InitPool /\ [][PoolNext]_vars /\ ShutdownFairness

\* As WorkerFairness, except that a backoff sleep of worker 1 may outlast
\* everything else: nothing is assumed about when it ends.
SleeperFairness ==
    \A w \in Workers :
        /\ WF_vars(WorkerRecv(w))
        /\ WF_vars(WorkerWokenByClose(w))
        /\ WF_vars(WorkerDispatch(w))
        /\ WF_vars(\E res \in HandlerResults : WorkerHandlerReturn(w, res))
        /\ w # 1 => WF_vars(WorkerWake(w))

SpecPoolSleeper == InitPool /\ [][PoolNext]_vars /\ SleeperFairness

\* A one-worker WorkerPool and an application goroutine calling Dispatch,
\* and registering the second topic, on the same Router.
InitPoolWithCaller ==
    /\ RouterStarted
    /\ \E observer \in BOOLEAN, retries \in 0..1 :
           NewWorkerPool(1, MaxQueueSize, observer, retries)
    /\ HandlerAbsent

PoolWithCallerNext ==
    \/ \E ev \in PoolEvents : Submit(ev)
    \/ \E w \in Workers : WorkerRecv(w)
    \/ \E w \in Workers : WorkerDispatch(w)
    \/ \E w \in Workers, res \in HandlerResults : WorkerHandlerReturn(w, res)
    \/ \E w \in Workers : WorkerWake(w)
    \/ \E ev \in PoolEvents : DispatchRLock("t1", ev)
    \/ DispatchRead("t1")
    \/ DispatchInvoke("t1")
    \/ \E err \in HandlerResults : DispatchHandlerReturn("t1", err)
    \/ DispatchOnError("t1")
    \/ HandleLock("t2", "products/update", "f2")
    \/ HandleBody("t2")

SpecPoolWithCaller == InitPoolWithCaller /\ [][PoolWithCallerNext]_vars

\* A Handler serving deliveries, dispatching to a started Router directly
\* (with any store) or through a one-worker WorkerPool (with no store or a
\* MemoryStore).
InitHandler ==
    /\ RouterStarted
    /\ HandlerInit
    /\ IF cfgAsync
         THEN /\ cfgDedup # "faulty"
              /\ \E retries \in 0..1 : NewWorkerPool(1, MaxQueueSize, TRUE, retries)
         ELSE PoolAbsent

SpecHandler == InitHandler /\ [][HandlerNext]_vars

\* A Handler with a store whose calls can fail, dispatching directly or
\* through a running one-worker WorkerPool without retries.
InitHandlerFaulty ==
    /\ RouterStarted
    /\ HandlerInit
    /\ cfgDedup = "faulty"
    /\ IF cfgAsync THEN NewWorkerPool(1, MaxQueueSize, TRUE, 0) ELSE PoolAbsent

HandlerFaultyNext ==
    \/ \E r \in Requests, sg \in SigHeaders, tp \in TopicHeaders, id \in EventIDHeaders :
           ReqArrive(r, sg, tp, id)
    \/ \E r \in Requests : ReqCheck(r)
    \/ \E r \in Requests : ReqHandoff(r)
    \/ \E r \in Requests : ReqStore(r)
    \/ Tick
    \/ Sweep
    \/ \E w \in Workers : WorkerRecv(w)
    \/ \E w \in Workers : WorkerDispatch(w)
    \/ \E w \in Workers, res \in {NoErr, HandlerErr("e1")} : WorkerHandlerReturn(w, res)

SpecHandlerFaulty == InitHandlerFaulty /\ [][HandlerFaultyNext]_vars

\* A Router whose Topics method is called while it is configured and used.
InitRouterTopics == RouterInit /\ PoolAbsent /\ HandlerAbsent

SpecRouterTopics == InitRouterTopics /\ [][RouterTopicsNext]_vars

\* A Router whose handlers call its methods while Dispatch runs them.
InitRouterReentrant == RouterInit /\ PoolAbsent /\ HandlerAbsent

SpecRouterReentrant == InitRouterReentrant /\ [][ReentrantNext]_vars

\* A Router on which RegisterGDPR, Handle and Dispatch are called by several
\* goroutines.
InitGDPR == GDPRRouterInit /\ PoolAbsent /\ HandlerAbsent

SpecGDPR == InitGDPR /\ [][GDPRNext]_vars

\* A Handler with a MemoryStore and a one-worker WorkerPool of any capacity,
\* without retries; the pool is not shut down.
InitHandlerAsync ==
    /\ RouterStarted
    /\ HandlerInit
    /\ cfgAsync
    /\ cfgDedup = "memory"
    /\ \E size \in 0..MaxQueueSize : NewWorkerPool(1, size, TRUE, 0)

HandlerAsyncNext ==
    \/ \E r \in Requests, sg \in SigHeaders, tp \in TopicHeaders, id \in EventIDHeaders :
           ReqArrive(r, sg, tp, id)
    \/ \E r \in Requests : ReqCheck(r)
    \/ \E r \in Requests : ReqHandoff(r)
    \/ \E r \in Requests : ReqStore(r)
    \/ Tick
    \/ Sweep
    \/ \E w \in Workers : WorkerRecv(w)
    \/ \E w \in Workers : WorkerDispatch(w)
    \/ \E w \in Workers, res \in {NoErr, HandlerErr("e1")} : WorkerHandlerReturn(w, res)

SpecHandlerAsync == InitHandlerAsync /\ [][HandlerAsyncNext]_vars

\* A MemoryStore used directly, with its sweeper running.
InitMemoryStore == RouterInit /\ PoolAbsent /\ MemoryStoreInit

SpecMemoryStore == InitMemoryStore /\ [][MemoryStoreNext]_vars

\* A MemoryStore used directly, its cleanup goroutine followed step by step
\* against the clock, and closed at any time.
InitMemoryStoreSweeper == RouterInit /\ PoolAbsent /\ MemoryStoreSweeperInit

SpecMemoryStoreSweeper == InitMemoryStoreSweeper /\ [][MemoryStoreSweeperNext]_vars

\* The scheduler runs the cleanup goroutine whenever it can take a step.
SweeperFairness ==
    /\ WF_vars(SweeperReceive)
    /\ WF_vars(SweeperPass)
    /\ WF_vars(SweeperReturn)

SpecMemoryStoreSweeperFair ==
    InitMemoryStoreSweeper /\ [][MemoryStoreSweeperNext]_vars /\ SweeperFairness

\* ------------------------------------------------------------------------
\* Router properties
\* ------------------------------------------------------------------------

\* Application functions (not the observer) invoked by t's current/last method.
HandlerCallsOf(t) == SelectSeq(calls[t], LAMBDA c : c.fn # "onError")

ObserverCallsOf(t) == SelectSeq(calls[t], LAMBDA c : c.fn = "onError")

DispatchDone(t) == loc[t].op = "Dispatch" /\ pc[t] = "idle"

\* C1: a Dispatch that found a handler H registered for the event's topic
\* invokes H with that event, exactly once by the time it returns, and invokes
\* no other function (in particular not the fallback), fallback set or not.
C1_RegisteredHandlerOnly ==
    \A t \in Threads :
        (loc[t].op = "Dispatch" /\ seen[t].handler # Nil) =>
            /\ Len(HandlerCallsOf(t)) <= 1
            /\ \A i \in 1..Len(HandlerCallsOf(t)) :
                   HandlerCallsOf(t)[i] = HandlerCall(seen[t].handler, loc[t].event)
            /\ DispatchDone(t) => Len(HandlerCallsOf(t)) = 1

C1_Witness ==
    \E t \in Threads :
        /\ DispatchDone(t)
        /\ seen[t].handler # Nil
        /\ seen[t].fallback # Nil
        /\ seen[t].fallback # seen[t].handler
        /\ HandlerCallsOf(t) = <<HandlerCall(seen[t].handler, loc[t].event)>>

\* C2: a Dispatch that found neither a handler for the topic nor a fallback
\* returns ErrUnhandledTopic for that topic and invokes nothing.
C2_UnhandledTopic ==
    \A t \in Threads :
        (loc[t].op = "Dispatch" /\ seen[t].handler = Nil /\ seen[t].fallback = Nil) =>
            /\ calls[t] = <<>>
            /\ DispatchDone(t) => ret[t] = ErrUnhandledTopic(loc[t].event.Topic)

C2_Witness ==
    \E t \in Threads :
        /\ DispatchDone(t)
        /\ seen[t].handler = Nil
        /\ seen[t].fallback = Nil
        /\ ret[t] = ErrUnhandledTopic(loc[t].event.Topic)
        /\ \E tp \in Topics : handlers[tp] # Nil

\* C3: a Dispatch that found no handler for the topic but a fallback F invokes
\* F with the event, exactly once by the time it returns, and nothing else but
\* the observer; and every Fallback call returns normally leaving its argument
\* as the fallback, whatever the fallback was before.
C3_FallbackInvoked ==
    \A t \in Threads :
        (loc[t].op = "Dispatch" /\ seen[t].handler = Nil /\ seen[t].fallback # Nil) =>
            /\ Len(HandlerCallsOf(t)) <= 1
            /\ \A i \in 1..Len(HandlerCallsOf(t)) :
                   HandlerCallsOf(t)[i] = HandlerCall(seen[t].fallback, loc[t].event)
            /\ DispatchDone(t) => Len(HandlerCallsOf(t)) = 1

C3_FallbackOverwrites ==
    \A t \in Threads :
        (pc[t] = "Fallback_locked" /\ pc'[t] = "idle") =>
            fallback' = loc[t].h /\ ret'[t] = NoErr

\* C3: the invariant on Dispatch and the step property on Fallback together.
C3_Fallback == []C3_FallbackInvoked /\ [][C3_FallbackOverwrites]_vars

\* A dispatch served by a fallback that replaced an earlier, different one.
C3_Witness ==
    \E t \in Threads, u \in Threads :
        /\ DispatchDone(t)
        /\ seen[t].handler = Nil
        /\ seen[t].fallback # Nil
        /\ HandlerCallsOf(t) = <<HandlerCall(seen[t].fallback, loc[t].event)>>
        /\ loc[u].op = "Dispatch" /\ seen[u].fallback # Nil
        /\ seen[u].fallback # seen[t].fallback

\* C4: Handle for a topic that already has a handler panics, leaves the map
\* (the topic's handler and the set of registered topics) as it was, and
\* leaves the router lock free.
C4_DuplicateStep ==
    \A t \in Threads :
        (pc[t] = "Handle_locked" /\ pc'[t] = "idle" /\ handlers[loc[t].topic] # Nil) =>
            /\ ret'[t] = Panicked
            /\ handlers' = handlers
            /\ mu' = MuFree

\* C4: every step of a Handle call on a registered topic is such a step.
C4_DuplicateHandlePanics == [][C4_DuplicateStep]_vars

\* A panicked Handle(T, h2) with T still mapped to another handler, lock free.
C4_Witness ==
    \E t \in Threads :
        /\ loc[t].op = "Handle" /\ pc[t] = "idle" /\ ret[t] = Panicked
        /\ handlers[loc[t].topic] # Nil
        /\ handlers[loc[t].topic] # loc[t].h
        /\ CanLock

\* C5: when the function Dispatch invoked returned error e, Dispatch returns e
\* and, if the router has an observer, has called it exactly once, with
\* (event, e), after the handler; when it returned success, Dispatch returns
\* success and the observer was not called.
C5_ObserverAndResult ==
    \A t \in Threads :
        (DispatchDone(t) /\ HandlerCallsOf(t) # <<>>) =>
            /\ ret[t] = loc[t].err
            /\ ObserverCallsOf(t) =
                   IF loc[t].err # NoErr /\ onError
                     THEN <<ObserverCall(loc[t].event, loc[t].err)>>
                     ELSE <<>>
            /\ Len(calls[t]) >= 1 /\ calls[t][1].fn # "onError"

C5_Witness ==
    \E t \in Threads, u \in Threads :
        /\ DispatchDone(t) /\ loc[t].err # NoErr /\ ret[t] = loc[t].err
        /\ Len(calls[t]) = 2
        /\ seen[t].handler = Nil
        /\ DispatchDone(u) /\ HandlerCallsOf(u) # <<>> /\ ret[u] = NoErr

TopicsDone(t) == loc[t].op = "Topics" /\ pc[t] = "idle"

SeqRange(sq) == {sq[i] : i \in DOMAIN sq}

\* The map's key set changes only when a Handle call on a free topic
\* completes, which adds that topic; such a call returns normally.
C23_OnlyHandleRegisters ==
    /\ handlers' # handlers =>
           \E t \in Threads :
               /\ pc[t] = "Handle_locked"
               /\ handlers[loc[t].topic] = Nil
               /\ handlers' = [handlers EXCEPT ![loc[t].topic] = loc[t].h]
               /\ ret'[t] = NoErr
    /\ \A t \in Threads :
           (pc[t] = "Handle_locked" /\ pc'[t] = "idle" /\ ret'[t] = NoErr) =>
               MapKeys(handlers') = MapKeys(handlers) \cup {loc[t].topic}

\* The slice a Topics call returns lists the keys the map has then, each once.
C23_TopicsReturnsKeys ==
    \A t \in Threads :
        (pc[t] = "Topics_rlocked" /\ pc'[t] = "idle") =>
            /\ SeqRange(loc'[t].topics) = MapKeys(handlers)
            /\ Len(loc'[t].topics) = Cardinality(MapKeys(handlers))
            /\ ret'[t] = NoErr
            /\ handlers' = handlers

\* C23: Topics returns exactly the topics registered by the Handle calls that
\* succeeded so far, each once, in any order; Fallback, Dispatch and Topics
\* steps leave the set alone, and a failed Handle does too.
C23_TopicsAreHandled == [][C23_OnlyHandleRegisters /\ C23_TopicsReturnsKeys]_vars

\* Two Topics calls listed the two registered topics in different orders,
\* a fallback being set.
C23_Witness ==
    \E t, u \in Threads :
        /\ TopicsDone(t)
        /\ TopicsDone(u)
        /\ Len(loc[t].topics) = 2
        /\ loc[u].topics = <<loc[t].topics[2], loc[t].topics[1]>>
        /\ fallback # Nil

\* The router as Dispatch reads it for topic tp.
Snapshot(tp) == [handler |-> handlers[tp], fallback |-> fallback]

\* Handle and Fallback hold the write lock from their first line to their
\* return, Dispatch and Topics the read lock while they read, and the write
\* lock is never held together with a read lock.
C32_MutualExclusion ==
    /\ mu.writer # Nil => mu.readers = {}
    /\ \A t \in Threads :
        /\ pc[t] \in {"Handle_locked", "Fallback_locked"} <=> mu.writer = t
        /\ pc[t] \in {"Dispatch_rlocked", "Topics_rlocked"} <=> t \in mu.readers

\* What Dispatch read when it took the lock is what the router holds for as
\* long as it reads; what it does afterwards follows from that reading alone,
\* whatever is registered meanwhile.
C32_OneSnapshot ==
    \A t \in Threads :
        loc[t].op = "Dispatch" =>
            /\ seen[t].handler \in HandlerFuncs \cup {Nil}
            /\ pc[t] = "Dispatch_rlocked" => seen[t] = Snapshot(loc[t].event.Topic)
            /\ pc[t] # "Dispatch_rlocked" =>
                  /\ loc[t].handler = SelectHandler(seen[t].handler, seen[t].fallback)
                  /\ seen[t].handler # Nil => loc[t].handler = seen[t].handler
                  /\ \A i \in 1..Len(HandlerCallsOf(t)) :
                         HandlerCallsOf(t)[i].fn = loc[t].handler
                  /\ (seen[t].handler = Nil /\ seen[t].fallback = Nil) =>
                         /\ pc[t] = "idle"
                         /\ calls[t] = <<>>
                         /\ ret[t] = ErrUnhandledTopic(loc[t].event.Topic)

\* Of two threads whose latest calls are Handle calls for the same topic, not
\* both succeeded; the topic has a handler, that of the call that succeeded.
C32_OneWinner ==
    \A t1, t2 \in Threads :
        ( /\ t1 # t2
          /\ loc[t1].op = "Handle" /\ pc[t1] = "idle"
          /\ loc[t2].op = "Handle" /\ pc[t2] = "idle"
          /\ loc[t1].topic = loc[t2].topic )
        => /\ handlers[loc[t1].topic] # Nil
           /\ ~(ret[t1] = NoErr /\ ret[t2] = NoErr)
           /\ ret[t1] \in {NoErr, Panicked}
           /\ ret[t1] = NoErr => handlers[loc[t1].topic] = loc[t1].h

\* The map and the fallback change only in a step of the thread holding the
\* write lock, no thread reading; a Handle call for a free topic registers its
\* handler whole and returns, one for a taken topic changes nothing and panics.
C32_WriteStep ==
    /\ (handlers' # handlers \/ fallback' # fallback) =>
          /\ mu.writer # Nil
          /\ mu.readers = {}
          /\ pc'[mu.writer] = "idle"
    /\ \A t \in Threads :
        (pc[t] = "Handle_locked" /\ pc'[t] = "idle") =>
            IF handlers[loc[t].topic] = Nil
              THEN /\ handlers' = [handlers EXCEPT ![loc[t].topic] = loc[t].h]
                   /\ ret'[t] = NoErr
              ELSE /\ handlers' = handlers
                   /\ ret'[t] = Panicked

\* C32: under any interleaving of Handle, Fallback, Topics and Dispatch from
\* several threads, each Dispatch acts on one consistent snapshot of the
\* router, taken under the read lock while no registration is in progress:
\* it sees no handler for the topic (and uses the fallback or returns
\* ErrUnhandledTopic) or the whole handler registered for it; and of two
\* Handle calls for one topic exactly one registers, the other fails.
C32_ConsistentSnapshot ==
    /\ [](C32_MutualExclusion /\ C32_OneSnapshot /\ C32_OneWinner)
    /\ [][C32_WriteStep]_vars

\* A Dispatch running the fallback it saw while the topic was free, the other
\* thread having registered a handler for that topic since.
C32_Witness ==
    \E t1, t2 \in Threads :
        /\ pc[t1] = "Dispatch_in_handler"
        /\ seen[t1].handler = Nil
        /\ seen[t1].fallback # Nil
        /\ loc[t2].op = "Handle" /\ pc[t2] = "idle" /\ ret[t2] = NoErr
        /\ loc[t2].topic = loc[t1].event.Topic
        /\ handlers[loc[t1].event.Topic] = loc[t2].h
        /\ loc[t2].h # seen[t1].fallback

\* Thread t is in Dispatch past its reads: about to call the handler, in the
\* handler, or about to call the observer.
PastReads(t) == pc[t] \in {"Dispatch_call", "Dispatch_in_handler", "Dispatch_onError"}

\* Dispatch holds neither lock of the router from the call of the handler to
\* its own return.
C39_NoLockHeld ==
    \A t \in Threads : PastReads(t) => (t \notin mu.readers /\ mu.writer # t)

\* While a handler runs and nothing else is under way, every method of the
\* router can take its lock: Handle for any topic, Fallback, Topics, Dispatch.
C39_CallsProceed ==
    \A t1, t2 \in Threads :
        (t1 = "t1" /\ t2 = "t2" /\ pc[t1] = "Dispatch_in_handler" /\ pc[t2] = "idle") =>
            /\ \A tp \in Topics, h \in HandlerFuncs : ENABLED HandleLock(t2, tp, h)
            /\ \A h \in HandlerFuncs : ENABLED FallbackLock(t2, h)
            /\ ENABLED TopicsRLock(t2)
            /\ \A ev \in TopicsEvents : ENABLED DispatchRLock(t2, ev)

\* A method that has taken the lock runs to its return whatever the handler
\* that called it is doing.
C39_CallsReturn ==
    /\ pc["t2"] = "Handle_locked" => ENABLED HandleBody("t2")
    /\ pc["t2"] = "Fallback_locked" => ENABLED FallbackBody("t2")
    /\ pc["t2"] = "Topics_rlocked" => ENABLED TopicsBody("t2")
    /\ pc["t2"] = "Dispatch_rlocked" => ENABLED DispatchRead("t2")

\* C39: Router.Dispatch holds no router lock while the handler or the error
\* observer runs: a handler calling Handle (for another topic), Fallback,
\* Topics or Dispatch on the same router is never left waiting for a lock its
\* own Dispatch holds, and a handler that has not returned keeps no other
\* caller of Handle or Dispatch waiting.
C39_DispatchUnlockedInHandler ==
    [](C39_NoLockHeld /\ C39_CallsProceed /\ C39_CallsReturn)

\* A handler invoked by Dispatch has registered a handler for another topic
\* from inside, and is still running.
C39_Witness ==
    /\ pc["t1"] = "Dispatch_in_handler"
    /\ loc["t2"].op = "Handle"
    /\ pc["t2"] = "idle"
    /\ ret["t2"] = NoErr
    /\ loc["t2"].topic # loc["t1"].event.Topic
    /\ handlers[loc["t2"].topic] = loc["t2"].h

\* ------------------------------------------------------------------------
\* RegisterGDPR properties
\* ------------------------------------------------------------------------

GDPRDone(t) == loc[t].op = "RegisterGDPR" /\ pc[t] = "idle"

\* The callback of field k was entered by t's Dispatch, that many times.
CallbackCalls(t, k) ==
    Len(SelectSeq(calls[t], LAMBDA c : c = HandlerCall(GDPRCallbacks[k], loc[t].event)))

\* A RegisterGDPR call given a nil field has panicked and registered nothing.
C22_NilPanics ==
    \A t \in Threads :
        (loc[t].op = "RegisterGDPR" /\ \E k \in GDPRIndex : loc[t].gdpr[k] = Nil) =>
            /\ pc[t] = "idle"
            /\ ret[t] = Panicked
            /\ loc[t].registered = <<>>

\* The step that checks the fields leaves the router's map alone.
C22_CheckStep ==
    \A t \in Threads :
        (pc[t] = "idle" /\ loc'[t].op = "RegisterGDPR" /\ loc'[t] # loc[t]) =>
            handlers' = handlers

C22_AllSetRegistersAll ==
    \A t \in Threads :
        (GDPRDone(t) /\ \A k \in GDPRIndex : loc[t].gdpr[k] # Nil) =>
            /\ ret[t] = NoErr
            /\ loc[t].registered = GDPRTopics
            /\ \A k \in GDPRIndex : handlers[GDPRTopics[k]] = GDPRWrappers[k]

C22_DispatchInvokesCallback ==
    \A t \in Threads, k \in GDPRIndex :
        (DispatchDone(t) /\ seen[t].handler = GDPRWrappers[k]) => CallbackCalls(t, k) = 1

\* C22 (as claimed): RegisterGDPR given a nil field panics and registers
\* nothing; given three callbacks it returns having registered exactly the
\* three topics, each with its closure; and a Dispatch that found such a
\* closure has invoked the field's callback once.
C22_RegisterGDPR ==
    /\ []C22_NilPanics
    /\ [][C22_CheckStep]_vars
    /\ []C22_AllSetRegistersAll
    /\ []C22_DispatchInvokesCallback

\* Given three callbacks, RegisterGDPR registers the topics in order, each
\* with its closure, and returns after the third; it ends early only by the
\* panic of Handle on a topic that already has a handler, the topics before
\* it staying registered.
C22_AllSetRegistersUnlessTaken ==
    \A t \in Threads :
        (loc[t].op = "RegisterGDPR" /\ \A k \in GDPRIndex : loc[t].gdpr[k] # Nil) =>
            LET n == Len(loc[t].registered) IN
            /\ loc[t].registered = SubSeq(GDPRTopics, 1, n)
            /\ \A k \in 1..n : handlers[GDPRTopics[k]] = GDPRWrappers[k]
            /\ ret[t] = NoErr <=> (pc[t] = "idle" /\ n = Len(GDPRTopics))
            /\ ret[t] = Panicked =>
                   /\ pc[t] = "idle"
                   /\ n < Len(GDPRTopics)
                   /\ handlers[GDPRTopics[n + 1]] # Nil

\* A Dispatch that found the closure of field k has invoked that callback
\* once with the event and returned what it returned, or, the body not
\* decoding, has returned the decoding error without invoking it; it invoked
\* no other callback.
C22_DispatchDecodesThenInvokes ==
    \A t \in Threads, k \in GDPRIndex :
        (DispatchDone(t) /\ seen[t].handler = GDPRWrappers[k]) =>
            /\ \A j \in GDPRIndex \ {k} : CallbackCalls(t, j) = 0
            /\ \/ CallbackCalls(t, k) = 1 /\ ret[t] = loc[t].err /\ ret[t] # ErrUnmarshal
               \/ CallbackCalls(t, k) = 0 /\ ret[t] = ErrUnmarshal

\* C22 (amended): RegisterGDPR given a nil field panics and registers
\* nothing; given three callbacks it registers exactly the three topics
\* unless one of them already has a handler, where Handle panics; a Dispatch
\* for a topic it registered invokes the field's callback when the event body
\* decodes and returns the decoding error otherwise.
C22_RegisterGDPROnFreeTopics ==
    /\ []C22_NilPanics
    /\ [][C22_CheckStep]_vars
    /\ []C22_AllSetRegistersUnlessTaken
    /\ []C22_DispatchDecodesThenInvokes

\* One goroutine's RegisterGDPR returned with the three topics registered and
\* another's Dispatch of shop/redact invoked OnShopRedact.
C22_Witness ==
    \E t, u \in Threads :
        /\ GDPRDone(t)
        /\ ret[t] = NoErr
        /\ \A k \in GDPRIndex : handlers[GDPRTopics[k]] = GDPRWrappers[k]
        /\ handlers["orders/create"] = Nil
        /\ DispatchDone(u)
        /\ loc[u].event.Topic = TopicShopRedact
        /\ CallbackCalls(u, 3) = 1

\* ------------------------------------------------------------------------
\* WorkerPool properties
\* ------------------------------------------------------------------------

Unfinished == {"queued", "processing", "retrying"}

\* The event's topic reaches an application function (handler or fallback).
Routed(ev) == SelectHandler(handlers[ev.Topic], fallback) # Nil

\* C8 (as claimed), for pools of capacity C >= 1: every Submit call accepts
\* the event when the queue holds fewer than C items, and when the queue holds
\* C items drops it, calling the pool's observer, if set, once with
\* ErrQueueFull; a dropped event is never dispatched.
C8_SubmitStep ==
    (nextSid' = nextSid + 1 /\ queueSize >= 1) =>
        /\ Len(queue) < queueSize =>
               items'[nextSid].state \in {"queued", "processing"}
        /\ Len(queue) >= queueSize =>
               /\ items'[nextSid].state = "dropped"
               /\ items'[nextSid].poolObs = IF poolOnError THEN <<ErrQueueFull>> ELSE <<>>
               /\ queue' = queue

C8_DroppedStaysDropped ==
    \A sid \in Sids :
        items[sid].state = "dropped" =>
            items[sid].dispatches = 0 /\ Len(items[sid].poolObs) <= 1

\* C8 (as claimed): every Submit step enqueues or drops, and a dropped event stays dropped.
C8_SubmitEnqueuesOrDrops == []C8_DroppedStaysDropped /\ [][C8_SubmitStep]_vars

\* C9: an item whose every attempt failed has had exactly maxRetries + 1
\* attempts (Router.Dispatch calls; as many handler invocations when its topic
\* is routed), and only then the pool's observer, if set, was called, once,
\* with the error of the last attempt, which is not ErrQueueFull; until then
\* the observer has not been called for it. With maxRetries = 0 that is one
\* attempt and one observer call.
C9_ExhaustedRetries ==
    \A sid \in Sids :
        /\ items[sid].state = "failed" =>
               /\ items[sid].dispatches = maxRetries + 1
               /\ items[sid].fails = maxRetries + 1
               /\ Routed(items[sid].event) => items[sid].invoked = maxRetries + 1
               /\ items[sid].lastErr \notin {NoErr, ErrQueueFull}
               /\ items[sid].poolObs = IF poolOnError THEN <<items[sid].lastErr>> ELSE <<>>
        /\ items[sid].state \in Unfinished =>
               /\ items[sid].poolObs = <<>>
               /\ items[sid].dispatches <= maxRetries + 1

C9_Witness ==
    \E sid \in Sids :
        /\ items[sid].state = "failed"
        /\ maxRetries = MaxRetryLimit
        /\ items[sid].invoked = maxRetries + 1
        /\ items[sid].poolObs = <<items[sid].lastErr>>

\* C10: an item whose handler first succeeded on attempt K (after K - 1
\* failures, K <= maxRetries + 1) has had exactly K attempts and handler
\* invocations, is held by no worker any more, and nothing was reported for
\* it to the pool's observer.
C10_SuccessStopsRetries ==
    \A sid \in Sids :
        items[sid].state = "succeeded" =>
            /\ items[sid].invoked = items[sid].fails + 1
            /\ items[sid].dispatches = items[sid].invoked
            /\ items[sid].invoked <= maxRetries + 1
            /\ items[sid].poolObs = <<>>
            /\ \A w \in Workers : wk[w].item.sid # sid

C10_Witness ==
    \E sid \in Sids :
        /\ items[sid].state = "succeeded"
        /\ items[sid].fails >= 1
        /\ items[sid].invoked = items[sid].fails + 1
        /\ items[sid].invoked <= maxRetries
        /\ poolOnError

\* C11: when Shutdown has returned nil, every worker has exited, the queue is
\* empty, and every submitted event that was accepted has been dispatched and
\* is in one terminal state: succeeded on its last attempt, or failed on all
\* maxRetries + 1 attempts and reported at most once; an event that succeeded
\* at once on a routed topic had exactly one handler invocation.
C11_SuccessMeansDrained ==
    (sd.pc = "returned" /\ sd.result = NoErr) =>
        /\ \A w \in Workers : wk[w].pc \in {"absent", "exited"}
        /\ queue = <<>>
        /\ \A sid \in Sids :
            /\ items[sid].state \notin Unfinished
            /\ items[sid].state \in {"succeeded", "failed"} =>
                   /\ items[sid].dispatches >= 1
                   /\ items[sid].dispatches =
                          items[sid].fails + (IF items[sid].state = "succeeded" THEN 1 ELSE 0)
                   /\ Len(items[sid].poolObs) <= 1
            /\ (items[sid].state = "succeeded" /\ items[sid].fails = 0
                    /\ Routed(items[sid].event)) => items[sid].invoked = 1

C11_Witness ==
    /\ sd.pc = "returned"
    /\ sd.result = NoErr
    /\ ~sd.deadline
    /\ \A w \in Workers : wk[w].pc = "exited"
    /\ \A sid \in Sids : items[sid].state \in {"succeeded", "failed"}
    /\ \E sid \in Sids : items[sid].state = "succeeded" /\ items[sid].invoked = 1

C12_ExpiryWhileBlockedStep ==
    /\ (sd.pc = "blocked" /\ ~sd.expired /\ sd'.expired) =>
           /\ sd'.pc = "returned"
           /\ sd'.result = ErrDeadlineExceeded
           /\ wk' = wk
           /\ items' = items
    /\ sd.pc = "returned" => (sd'.pc = "returned" /\ sd'.result = sd.result)

C12_DeadlineErrorOnlyExpired ==
    /\ sd.result = ErrDeadlineExceeded => sd.expired
    /\ sd.pc = "blocked" => (~sd.expired /\ ~sd.done)

C13_SubmitAfterShutdownStep ==
    (nextSid' = nextSid + 1 /\ closing) =>
        /\ items'[nextSid].state \notin {"panicked", "queued", "processing"}
        /\ queue' = queue
        /\ wk' = wk

\* C13 (as claimed): a Submit call made once Shutdown has set closing returns
\* to its caller (it does not panic) and the event is neither put in the
\* queue nor given to a worker.
C13_SubmitAfterShutdown == [][C13_SubmitAfterShutdownStep]_vars

\* Worker goroutines the pool was built with.
Started == {w \in Workers : wk[w].pc # "absent"}

C14_ExcessStep ==
    (nextSid' = nextSid + 1 /\ Started \subseteq BusyWorkers /\ Len(queue) >= queueSize) =>
        /\ items'[nextSid].state = "dropped"
        /\ items'[nextSid].poolObs = (IF poolOnError THEN <<ErrQueueFull>> ELSE <<>>)
        /\ queue' = queue

C14_WithinCapacity ==
    Cardinality({sid \in Sids : items[sid].state \in Unfinished})
        <= Cardinality(Started) + queueSize

C14_AcceptedDispatched ==
    \A sid \in Sids : (items[sid].state = "queued") ~> (items[sid].dispatches >= 1)

\* C14 (as claimed): a Submit made while every worker holds an item and the
\* queue holds its capacity is dropped and reported once with ErrQueueFull
\* to the pool's observer, if set; the events accepted and not finished never
\* exceed workers + capacity; and, workers being scheduled and handlers
\* terminating, every event put in the queue is eventually dispatched.
C14_ExcessDroppedRestDispatched ==
    /\ [][C14_ExcessStep]_vars
    /\ []C14_WithinCapacity
    /\ C14_AcceptedDispatched

\* States in which a work item is over.
Terminal == {"succeeded", "failed"}

\* Transitions of the work-item state machine; "none" is an event not yet
\* submitted, and a Submit that panics or drops makes no work item.
ItemEdges ==
    {<<"none", "queued">>, <<"none", "processing">>, <<"none", "dropped">>,
     <<"none", "panicked">>, <<"queued", "processing">>,
     <<"processing", "succeeded">>, <<"processing", "retrying">>,
     <<"processing", "failed">>, <<"retrying", "processing">>}

\* Workers holding the item of submission sid, and its positions in the queue.
HeldBy(sid) == {w \in Workers : wk[w].item.sid = sid}

InQueue(sid) == {i \in 1..Len(queue) : queue[i].sid = sid}

\* A step moves an item along the machine: one edge, or, when Dispatch
\* returns at once, into Processing and out of it.
ItemMoves(sid) ==
    LET a == items[sid].state
        b == items'[sid].state
    IN
    /\ a \in Terminal \cup {"dropped", "panicked"} => items'[sid] = items[sid]
    /\ a # b =>
        \/ <<a, b>> \in ItemEdges
        \/ /\ items'[sid].dispatches = items[sid].dispatches + 1
           /\ <<a, "processing">> \in ItemEdges
           /\ <<"processing", b>> \in ItemEdges

Accepted(sid) == items[sid].state = "none" /\ items'[sid].state \in {"queued", "processing"}

C21_CapacityStep ==
    \A sid \in Sids : ItemMoves(sid) /\ (Accepted(sid) => Len(queue) < queueSize)

C21_HandoffStep ==
    \A sid \in Sids :
        /\ ItemMoves(sid)
        /\ Accepted(sid) => (Len(queue) < queueSize \/ ParkedWorkers # {})
        /\ (Accepted(sid) /\ items'[sid].state = "queued") => Len(queue) < queueSize

\* A queued item is in the queue once and nowhere else; an item being
\* processed or retried is held by one worker and not queued; a finished item
\* is nowhere and was dispatched; a dropped event was never an item.
C21_OneOwner ==
    \A sid \in Sids :
        LET st == items[sid].state IN
        /\ st = "queued" =>
               /\ Cardinality(InQueue(sid)) = 1
               /\ HeldBy(sid) = {}
               /\ items[sid].dispatches = 0
        /\ st \in {"processing", "retrying"} =>
               /\ InQueue(sid) = {}
               /\ Cardinality(HeldBy(sid)) = 1
        /\ st \in Terminal =>
               /\ InQueue(sid) = {}
               /\ HeldBy(sid) = {}
               /\ items[sid].dispatches >= 1
        /\ st \in {"none", "dropped", "panicked"} =>
               /\ InQueue(sid) = {}
               /\ HeldBy(sid) = {}
               /\ items[sid].dispatches = 0

C21_ReachesTerminal ==
    \A sid \in Sids : (items[sid].state \in Unfinished) ~> (items[sid].state \in Terminal)

\* C21 (as claimed): every item moves along Queued -> Processing ->
\* {Succeeded | Retrying -> Processing | Failed-Final}; an event becomes a work
\* item only at a Submit that finds the queue holding fewer items than its
\* capacity; an item leaves the queue once, to one worker, is dispatched at
\* least once and, workers being scheduled and handlers terminating, reaches
\* one terminal state, after which nothing about it changes; a dropped event
\* is never an item.
C21_ItemStateMachine ==
    /\ [][C21_CapacityStep]_vars
    /\ []C21_OneOwner
    /\ C21_ReachesTerminal

\* C21 (amended): as above, but an event becomes a work item at a Submit that
\* finds the queue below capacity or a worker blocked in the receive; such a
\* worker takes the item at once, which is the only way with capacity 0. An
\* item is put in the queue only below capacity.
C21_ItemStateMachineWithHandoff ==
    /\ [][C21_HandoffStep]_vars
    /\ []C21_OneOwner
    /\ C21_ReachesTerminal

\* A pool of capacity 0 whose item was retried and succeeded, another event
\* having been dropped.
C21_Witness ==
    /\ queueSize = 0
    /\ \E sid \in Sids :
        /\ items[sid].state = "succeeded"
        /\ items[sid].fails >= 1
        /\ items[sid].dispatches = items[sid].fails + 1
    /\ \E sid \in Sids : items[sid].state = "dropped"

\* At most one worker holds an item, exactly while it is being processed or
\* retried and never while it is queued; at most one handler invocation for
\* it is in progress; an attempt starts only after the one before it failed.
C25_SingleOwner ==
    \A sid \in Sids :
        /\ Cardinality(HeldBy(sid)) <= 1
        /\ Cardinality({w \in HeldBy(sid) : wk[w].pc = "in_handler"}) <= 1
        /\ items[sid].state \in {"processing", "retrying"} <=> HeldBy(sid) # {}
        /\ InQueue(sid) # {} => HeldBy(sid) = {}
        /\ items[sid].dispatches - items[sid].fails \in {0, 1}
        /\ items[sid].invoked <= items[sid].dispatches

\* A worker takes an item only when it holds none and the item is new or
\* queued, keeps it until the item is in a terminal state, and numbers its
\* attempts one by one.
C25_OwnerStep ==
    \A sid \in Sids, w \in Workers :
        /\ (wk[w].item.sid = sid /\ items'[sid].state \notin Terminal) =>
               wk'[w].item = wk[w].item
        /\ (wk[w].item.sid # sid /\ wk'[w].item.sid = sid) =>
               /\ wk[w].item = NoWork
               /\ items[sid].state \in {"none", "queued"}
               /\ wk'[w].attempt = 0
        /\ (wk[w].item.sid = sid /\ wk'[w].item.sid = sid) =>
               wk'[w].attempt \in {wk[w].attempt, wk[w].attempt + 1}
        /\ (wk[w].item.sid = sid /\ wk'[w].attempt = wk[w].attempt + 1) =>
               (wk[w].pc = "sleep" /\ items[sid].fails = wk'[w].attempt)

\* C25: the attempts of one work item are made one after the other by the
\* one worker that took it, which keeps it until its terminal state: never
\* are two handler invocations for one item in progress, never do two
\* workers hold one item.
C25_AttemptsInSequence == []C25_SingleOwner /\ [][C25_OwnerStep]_vars

\* Two workers are inside the handler, each for its own item, one of them on
\* a retry.
C25_Witness ==
    \E w1, w2 \in Workers :
        /\ w1 # w2
        /\ wk[w1].pc = "in_handler"
        /\ wk[w2].pc = "in_handler"
        /\ wk[w1].item.sid # wk[w2].item.sid
        /\ wk[w1].attempt >= 1
        /\ items[wk[w1].item.sid].invoked = wk[w1].attempt + 1

\* Items of the queue, as a set of submission numbers.
Queued == {queue[i].sid : i \in 1..Len(queue)}

\* No item in the queue was ever attempted.
C26_QueueHoldsNewItems ==
    \A sid \in Queued : items[sid].dispatches = 0 /\ items[sid].fails = 0

\* The queue changes only by a Submit appending the event it was called
\* with and by a worker without item taking the head; a step that counts a
\* failure, starts a sleep or ends one leaves the queue as it is; and a
\* worker holding an item takes no other before that item's terminal state.
C26_QueueStep ==
    /\ queue' # queue =>
        \/ /\ nextSid' = nextSid + 1
           /\ queue' = Append(queue, Work(items'[nextSid].event, nextSid))
        \/ /\ queue # <<>>
           /\ queue' = Tail(queue)
           /\ \E w \in Workers : wk[w].item = NoWork /\ wk'[w].item = Head(queue)
    /\ \A sid \in Sids :
        (items'[sid].fails # items[sid].fails \/ items'[sid].sleeps # items[sid].sleeps) =>
            queue' = queue
    /\ \A w \in Workers :
        /\ (wk[w].pc = "sleep" /\ wk'[w] # wk[w]) => queue' = queue
        /\ wk[w].item # NoWork =>
            \/ wk'[w].item = wk[w].item
            \/ /\ wk'[w].item = NoWork
               /\ items'[wk[w].item.sid].state \in Terminal

Min(a, b) == IF a <= b THEN a ELSE b

\* The first sleep lasts the base delay, each later one twice the one before;
\* with the default base delay that is 500, 1000, 2000, 4000 ms.
Doubling(sq, base) ==
    /\ sq # <<>> => sq[1] = base
    /\ \A i \in 1..(Len(sq) - 1) : sq[i + 1] = 2 * sq[i]
    /\ base = 500 => \A i \in 1..Min(Len(sq), 4) : sq[i] = <<500, 1000, 2000, 4000>>[i]

\* The sleeps taken for an item: one after each failed attempt but the last
\* allowed one, min(fails, maxRetries) in all, doubling from the base delay;
\* a worker sleeps only for an item waiting for its retry.
C27_SleepsTaken ==
    /\ \A sid \in Sids :
        /\ Len(items[sid].sleeps) = Min(items[sid].fails, maxRetries)
        /\ Doubling(items[sid].sleeps, baseDelay)
        /\ items[sid].state = "succeeded" => Len(items[sid].sleeps) = items[sid].dispatches - 1
        /\ items[sid].state = "failed" => Len(items[sid].sleeps) = items[sid].dispatches - 1
    /\ \A w \in Workers :
        wk[w].pc = "sleep" =>
            /\ items[wk[w].item.sid].state = "retrying"
            /\ items[wk[w].item.sid].fails = wk[w].attempt + 1
            /\ wk[w].attempt < maxRetries

\* A worker starts to sleep only at the return of a failed attempt a that is
\* not the last one, for baseDelay * 2^a, and the next attempt follows the
\* sleep; an item that succeeded or failed for good gets no further sleep.
C27_SleepStep ==
    \A w \in Workers :
        /\ (wk[w].pc # "sleep" /\ wk'[w].pc = "sleep") =>
            LET sid == wk[w].item.sid
                a == wk[w].attempt
            IN /\ a < maxRetries
               /\ items'[sid].lastErr # NoErr
               /\ items'[sid].sleeps = Append(items[sid].sleeps, baseDelay * (2 ^ a))
               /\ Len(items'[sid].sleeps) = a + 1
        /\ (wk[w].pc = "sleep" /\ wk'[w].pc # "sleep") =>
               (wk'[w].pc = "dispatch" /\ wk'[w].attempt = wk[w].attempt + 1)
        /\ \A sid \in Sids :
               items'[sid].state \in Terminal => items'[sid].sleeps = items[sid].sleeps

\* C27: after failed attempt a (from 0) that is not the last one the worker
\* sleeps baseDelay * 2^a before the next attempt: 500 ms, 1 s, 2 s with the
\* default base delay; an item that failed f times has slept min(f, R)
\* times, and nothing is slept after a success or the final failure.
C27_ExponentialBackoff == []C27_SleepsTaken /\ [][C27_SleepStep]_vars

\* An item that failed on every attempt of the largest retry limit, and
\* slept 500 ms, 1000 ms, ... in between.
C27_Witness ==
    \E sid \in Sids :
        /\ maxRetries = MaxRetryLimit
        /\ items[sid].state = "failed"
        /\ items[sid].fails = MaxRetryLimit + 1
        /\ Len(items[sid].sleeps) = MaxRetryLimit
        /\ items[sid].sleeps[1] = 500
        /\ items[sid].sleeps[2] = 1000

Sleeping == {w \in Workers : wk[w].pc = "sleep"}

\* While a worker sleeps a Submit call can run, and one that runs returns in
\* that step, the event queued, handed to a waiting worker or dropped, and
\* leaves the sleeping workers asleep.
C28_SubmitWhileSleeping ==
    (Sleeping # {} /\ nextSid' = nextSid + 1) =>
        /\ items'[nextSid].state \in {"queued", "processing", "dropped"}
        /\ \A w \in Sleeping : wk'[w] = wk[w]

C28_SubmitNotBlocked ==
    (Sleeping # {} /\ nextSid <= MaxSubmits) => ENABLED (\E ev \in PoolEvents : Submit(ev))

\* With two workers a queued item is dispatched even if worker 1 never wakes
\* from a sleep.
C28_OthersGoOn ==
    \A sid \in Sids :
        (Cardinality(Started) >= 2 /\ items[sid].state = "queued")
            ~> (items[sid].dispatches >= 1)

\* C28 (as claimed): while a worker is in a backoff sleep, Submit is not
\* blocked and returns; and with at least two workers every queued item is
\* eventually dequeued and dispatched whether or not the sleeping worker
\* ever wakes.
C28_SleepSuspendsOneWorker ==
    /\ [][C28_SubmitWhileSleeping]_vars
    /\ []C28_SubmitNotBlocked
    /\ C28_OthersGoOn

TimedOut == sd.pc = "returned" /\ sd.result = ErrDeadlineExceeded

\* Every worker has returned, nothing is queued or unfinished, and the
\* goroutine waiting for the workers has closed done and ended.
AllFinished ==
    /\ \A w \in Workers : wk[w].pc \in {"absent", "exited"}
    /\ queue = <<>>
    /\ \A sid \in Sids : items[sid].state \notin Unfinished
    /\ sd.done

\* After the timed-out return no worker has exited while an item was queued
\* or held, and the waiting goroutine has not ended before the last worker.
C29_NothingAbandoned ==
    TimedOut =>
        /\ (\A w \in Workers : wk[w].pc \in {"absent", "exited"}) =>
               (queue = <<>> /\ \A sid \in Sids : items[sid].state \notin Unfinished)
        /\ sd.done => WgCount = 0
        /\ \A sid \in Sids :
               items[sid].state = "failed" => items[sid].dispatches = maxRetries + 1

\* A worker holding an item when Shutdown has timed out keeps it, attempt by
\* attempt, until the item's terminal state.
C29_NotInterrupted ==
    TimedOut =>
        \A w \in Workers :
            wk[w].item # NoWork =>
                \/ wk'[w].item = wk[w].item
                \/ items'[wk[w].item.sid].state \in Terminal

C29_EventuallyFinished == TimedOut ~> AllFinished

\* C29: after Shutdown returned the deadline error, the workers are neither
\* interrupted nor abandoned: workers being scheduled, handlers terminating
\* and sleeps ending, every worker finishes its item with its remaining
\* retries, the queue is drained, every worker exits, and the goroutine
\* waiting on them ends.
C29_TimedOutShutdownDrains ==
    /\ []C29_NothingAbandoned
    /\ [][C29_NotInterrupted]_vars
    /\ C29_EventuallyFinished

\* Shutdown timed out while a worker was busy, and since then everything has
\* finished, an item having used all its retries.
C29_Witness ==
    /\ TimedOut
    /\ sd.busyAtExpiry
    /\ AllFinished
    /\ maxRetries >= 1
    /\ \E sid \in Sids : items[sid].state = "failed" /\ items[sid].dispatches = maxRetries + 1
    /\ \E sid \in Sids : items[sid].state = "succeeded"

Unhandled(err) == err.kind = "ErrUnhandledTopic"

\* A direct Dispatch that found neither handler nor fallback called nothing,
\* the router's observer included, and returns ErrUnhandledTopic for the
\* event's topic; no other Dispatch returns that error.
C30_ReturnedToCaller ==
    \A t \in Threads :
        loc[t].op = "Dispatch" =>
            /\ (seen[t].handler = Nil /\ seen[t].fallback = Nil) =>
                   /\ calls[t] = <<>>
                   /\ DispatchDone(t) => ret[t] = ErrUnhandledTopic(loc[t].event.Topic)
            /\ Unhandled(ret[t]) =>
                   /\ calls[t] = <<>>
                   /\ seen[t].handler = Nil
                   /\ seen[t].fallback = Nil

\* A worker's Dispatch call that enters no handler ends with
\* ErrUnhandledTopic for the event's topic and without a call of the
\* router's observer; if it is the last attempt allowed, the pool's
\* observer, if set, is called with (event, that error), and if not the
\* worker sleeps and tries again.
C30_WorkerAttemptStep ==
    \A sid \in Sids :
        (items'[sid].dispatches = items[sid].dispatches + 1
            /\ items'[sid].invoked = items[sid].invoked) =>
            /\ items'[sid].lastErr = ErrUnhandledTopic(items[sid].event.Topic)
            /\ items'[sid].routerObs = items[sid].routerObs
            /\ items'[sid].fails = items[sid].fails + 1
            /\ IF items[sid].fails = maxRetries
                 THEN /\ items'[sid].state = "failed"
                      /\ items'[sid].poolObs =
                             (IF poolOnError THEN <<items'[sid].lastErr>> ELSE <<>>)
                 ELSE /\ items'[sid].state = "retrying"
                      /\ items'[sid].poolObs = <<>>

\* An item that failed for good on an unhandled topic was reported once to
\* the pool's observer, if set; and the router's observer was called for an
\* item only as often as a handler was entered for it.
C30_ReportedByPool ==
    \A sid \in Sids :
        /\ (items[sid].state = "failed" /\ Unhandled(items[sid].lastErr)) =>
               items[sid].poolObs = (IF poolOnError THEN <<items[sid].lastErr>> ELSE <<>>)
        /\ items[sid].routerObs <= items[sid].invoked
        /\ ~onError => items[sid].routerObs = 0

\* C30: the ErrUnhandledTopic of a direct Dispatch call goes to the caller
\* as the return value and never to the router's observer; the same error in
\* a worker's Dispatch goes to the pool's observer, if set, once the item's
\* attempts are used up, and never to the router's observer either.
C30_UnhandledTopicRouting ==
    /\ []C30_ReturnedToCaller
    /\ []C30_ReportedByPool
    /\ [][C30_WorkerAttemptStep]_vars

\* With both observers set, a direct Dispatch of an unhandled topic returned
\* the error having called nothing, and a worker's item of that topic was
\* reported to the pool's observer after its retry.
C30_Witness ==
    /\ onError
    /\ poolOnError
    /\ maxRetries = 1
    /\ DispatchDone("t1")
    /\ ret["t1"] = ErrUnhandledTopic("products/update")
    /\ calls["t1"] = <<>>
    /\ \E sid \in Sids :
        /\ items[sid].state = "failed"
        /\ items[sid].dispatches = 2
        /\ items[sid].poolObs = <<ErrUnhandledTopic("products/update")>>
        /\ items[sid].routerObs = 0

\* Items the pool accepted whose topic has a handler: every attempt made for
\* them invokes the handler.
HandledItems ==
    {sid \in Sids : items[sid].state \in Unfinished \cup Terminal /\ Routed(items[sid].event)}

\* The router's observer, if the router has one, has been called once for
\* every failed attempt so far, retried or not; the pool's observer, if the
\* pool has one, has been called only for an item that failed its last
\* attempt, once, with that attempt's error; such an item failed R+1 times.
C37_ObserverCounts ==
    \A sid \in HandledItems :
        /\ items[sid].fails <= maxRetries + 1
        /\ items[sid].routerObs = (IF onError THEN items[sid].fails ELSE 0)
        /\ items[sid].poolObs =
              (IF poolOnError /\ items[sid].state = "failed" THEN <<items[sid].lastErr>> ELSE <<>>)
        /\ items[sid].state = "failed" =>
              /\ items[sid].fails = maxRetries + 1
              /\ items[sid].lastErr.kind = "handler"

\* A failed attempt's step calls the router's observer; the pool's observer
\* is called in the step of the last attempt only.
C37_AttemptStep ==
    \A sid \in Sids :
        (sid \in HandledItems /\ items'[sid].fails = items[sid].fails + 1) =>
            /\ items'[sid].routerObs = items[sid].routerObs + (IF onError THEN 1 ELSE 0)
            /\ items'[sid].poolObs # items[sid].poolObs =>
                  (items[sid].fails = maxRetries /\ items'[sid].state = "failed")

\* C37: when a work item's handler fails inside the worker pool, the router's
\* error observer (if configured) is invoked once for every failed attempt,
\* those retried afterwards included, and the pool's error observer only
\* once, after the last attempt: an item failing all R+1 attempts produces
\* R+1 router-observer calls and 1 pool-observer call.
C37_RouterObservesEachAttempt == []C37_ObserverCounts /\ [][C37_AttemptStep]_vars

C37_Witness ==
    /\ onError
    /\ poolOnError
    /\ maxRetries = MaxRetryLimit
    /\ \E sid \in HandledItems :
        /\ items[sid].state = "failed"
        /\ items[sid].invoked = maxRetries + 1
        /\ items[sid].routerObs = maxRetries + 1
        /\ Len(items[sid].poolObs) = 1
        /\ Len(items[sid].sleeps) = maxRetries

\* Accepted items not yet finished.
UnfinishedItems == {sid \in Sids : items[sid].state \in Unfinished}

\* C38: in a pool of N workers and queue capacity C the queue holds at most
\* C items and at most N items are being processed, those in a backoff sleep
\* included: the queued items are those in the channel, the items being
\* processed those the busy workers hold, one each; so at most N + C
\* accepted items are unfinished.
C38_AtMostWorkersPlusCapacity ==
    LET N == Cardinality(Started)
        C == queueSize
    IN
    /\ Len(queue) <= C
    /\ Cardinality(BusyWorkers) <= N
    /\ {sid \in Sids : items[sid].state = "queued"} = Queued
    /\ Cardinality(Queued) = Len(queue)
    /\ {sid \in Sids : items[sid].state \in {"processing", "retrying"}}
           = {wk[w].item.sid : w \in BusyWorkers}
    /\ \A w1, w2 \in BusyWorkers : wk[w1].item.sid = wk[w2].item.sid => w1 = w2
    /\ Cardinality(UnfinishedItems) <= N + C

\* A one-worker pool of capacity one holding two unfinished items, one queued
\* and one with the worker in its backoff sleep.
C38_Witness ==
    /\ Cardinality(Started) = 1
    /\ queueSize = 1
    /\ Len(queue) = 1
    /\ \E w \in BusyWorkers : wk[w].pc = "sleep"
    /\ Cardinality(UnfinishedItems) = 2

\* ------------------------------------------------------------------------
\* Handler properties
\* ------------------------------------------------------------------------

\* Hand-offs (Submit or Dispatch calls) among the calls made for a delivery.
Handoffs(log) == Len(SelectSeq(log, LAMBDA c : c \in {"Submit", "Dispatch"}))

\* Router.Dispatch calls made by the workers for the given submissions.
RECURSIVE PoolDispatches(_)
PoolDispatches(S) ==
    IF S = {} THEN 0
    ELSE LET sid == CHOOSE x \in S : TRUE
         IN items[sid].dispatches + PoolDispatches(S \ {sid})

\* Router.Dispatch calls made for deliveries r1 and r2 when no other delivery
\* was handed off: the Handler's own and the workers'.
RouterInvocations(r1, r2) ==
    Len(SelectSeq(req[r1].log \o req[r2].log, LAMBDA c : c = "Dispatch"))
        + PoolDispatches(Sids)

\* Deliveries r1 and r2 were verified and parsed, carry the same event ID,
\* and r2 arrived after r1 had returned.
Redelivery(r1, r2) ==
    /\ r1 # r2
    /\ cfgDedup # "none"
    /\ req[r1].pc = "done"
    /\ req[r1].event.Topic # Nil
    /\ req[r2].event.Topic # Nil
    /\ req[r2].event.EventID = req[r1].event.EventID
    /\ r1 \in req[r2].prior

\* C6 (as claimed): with a dedup store, when two deliveries of one event ID,
\* the second arriving after the first completed and within the TTL, are over
\* and the pool has nothing left to do, the Router was invoked exactly once
\* for them and both were answered 200.
C6_ExactlyOneRouterInvocation ==
    \A r1, r2 \in Requests :
        ( /\ Redelivery(r1, r2)
          /\ req[r2].pc = "done"
          /\ \A q \in Requests \ {r1, r2} : Handoffs(req[q].log) = 0
          /\ \A sid \in Sids : items[sid].state \notin Unfinished
          /\ now <= TTL )
        => /\ RouterInvocations(r1, r2) = 1
           /\ req[r1].status = 200
           /\ req[r2].status = 200

C6_HandedOffOnceStep ==
    \A r1, r2 \in Requests :
        ( /\ Redelivery(r1, r2)
          /\ req[r1].storeAt # NoTime
          /\ now - req[r1].storeAt <= TTL
          /\ req[r2].pc = "check"
          /\ req'[r2].pc # "check"
          /\ req'[r2].exists.err = NoErr )
        => /\ req'[r2].pc = "done"
           /\ req'[r2].log = <<"Exists", "WriteHeader">>
           /\ req'[r2].status = 200
           /\ req'[r1].status = 200
           /\ Handoffs(req'[r1].log) + Handoffs(req'[r2].log) = 1

\* C6 (amended): with a dedup store, when the first delivery's Store call
\* succeeded and the second delivery of the same event ID, arriving after the
\* first returned, has its Exists call answered without error within the TTL
\* of that Store, the event is handed off exactly once for the two (one
\* Router.Dispatch call, or one Submit call with an async processor), the
\* second delivery ending at the response, and both are answered 200.
C6_HandedOffOnce == [][C6_HandedOffOnceStep]_vars

C6_Witness ==
    \E r1, r2 \in Requests :
        /\ Redelivery(r1, r2)
        /\ req[r1].storeAt # NoTime
        /\ now - req[r1].storeAt = TTL
        /\ req[r2].pc = "done"
        /\ req[r2].exists = ExistsResult(TRUE, NoErr)
        /\ req[r2].status = 200
        /\ Handoffs(req[r1].log) = 1

\* C7: a delivery whose Exists call reported true without error has been
\* answered 200 and is over, and the calls made for it are Exists and the
\* response only: no Dispatch, no Submit, no Store.
C7_DuplicateShortCircuits ==
    \A r \in Requests :
        (req[r].exists.err = NoErr /\ req[r].exists.processed) =>
            /\ req[r].pc = "done"
            /\ req[r].status = 200
            /\ req[r].log = <<"Exists", "WriteHeader">>
            /\ req[r].storeAt = NoTime

C7_Witness ==
    \E r \in Requests :
        /\ cfgAsync
        /\ req[r].exists = ExistsResult(TRUE, NoErr)
        /\ req[r].pc = "done"
        /\ req[r].status = 200

\* The calls a delivery made, the router observer's aside.
Steps(log) == SelectSeq(log, LAMBDA c : c # "onError")

InLog(r, c) == \E i \in 1..Len(req[r].log) : req[r].log[i] = c

\* The calls of a verified, non-duplicate delivery, in the order claimed.
BeforeHandoff == IF cfgDedup = "none" THEN <<"WriteHeader">> ELSE <<"Exists", "WriteHeader">>

TheHandoff == IF cfgAsync THEN <<"Submit">> ELSE <<"Dispatch">>

AfterTheHandoff == IF cfgDedup = "none" THEN <<>> ELSE <<"Store">>

\* Delivery r came to Handler, was verified and parsed, and was not found to
\* be a duplicate.
VerifiedNonDuplicate(r) ==
    /\ req[r].via = "Handler"
    /\ req[r].event.Topic # Nil
    /\ ~(req[r].exists.err = NoErr /\ req[r].exists.processed)

\* C17: at every point of a verified, non-duplicate delivery the calls made
\* for it are a beginning of: Exists (with a store), the 200 response, Submit
\* (with an async processor) or else Dispatch, Store (with a store); a
\* delivery that has returned made them all, each once. So Store never
\* precedes the hand-off, and the response precedes the handler: every event
\* in the pool was submitted by a delivery that had written its response.
C17_FixedOrder ==
    /\ \A r \in Requests :
        VerifiedNonDuplicate(r) =>
            /\ req[r].pc = "check" => req[r].log = <<>>
            /\ req[r].pc = "handoff" => req[r].log = BeforeHandoff
            /\ req[r].pc = "store" =>
                   (cfgDedup # "none" /\ Steps(req[r].log) = BeforeHandoff \o TheHandoff)
            /\ req[r].pc = "panicked" =>
                   (cfgAsync /\ Steps(req[r].log) = BeforeHandoff \o TheHandoff)
            /\ req[r].pc = "done" =>
                   Steps(req[r].log) = BeforeHandoff \o TheHandoff \o AfterTheHandoff
            /\ req[r].log # <<>> => req[r].status = 200
    /\ nextSid - 1 = Cardinality({r \in Requests : InLog(r, "Submit")})

C17_Witness ==
    \E r \in Requests :
        /\ VerifiedNonDuplicate(r)
        /\ cfgAsync
        /\ req[r].pc = "done"
        /\ req[r].log = <<"Exists", "WriteHeader", "Submit", "Store">>
        /\ \E sid \in Sids : items[sid].event = req[r].event /\ items[sid].invoked >= 1

\* C18: a delivery whose Exists call failed, with either boolean, is not
\* treated as a duplicate: it is answered 200, handed to Submit or Dispatch,
\* and Store is called after that; and a delivery whose Store call failed
\* has returned all the same, answered 200.
C18_StoreErrorsIgnored ==
    \A r \in Requests :
        /\ req[r].exists.err = ErrStore =>
            /\ req[r].status = 200
            /\ req[r].pc \in {"handoff", "store", "done"}
            /\ req[r].pc = "handoff" => req[r].log = <<"Exists", "WriteHeader">>
            /\ req[r].pc = "store" =>
                   Steps(req[r].log) = <<"Exists", "WriteHeader">> \o TheHandoff
            /\ req[r].pc = "done" =>
                   Steps(req[r].log) = <<"Exists", "WriteHeader">> \o TheHandoff \o <<"Store">>
        /\ (InLog(r, "Store") /\ req[r].storeAt = NoTime) =>
               (req[r].pc = "done" /\ req[r].status = 200)

C18_Witness ==
    /\ cfgAsync
    /\ \E r \in Requests :
        /\ req[r].exists = ExistsResult(TRUE, ErrStore)
        /\ req[r].pc = "done"
        /\ req[r].log = <<"Exists", "WriteHeader", "Submit", "Store">>
        /\ req[r].storeAt = NoTime
        /\ req[r].status = 200

\* C19 (as claimed): the event of every delivery for which Handler called
\* Exists, Submit, Dispatch or Store has a non-empty Topic and a non-empty
\* EventID.
C19_TopicAndEventIDNonEmpty ==
    \A r \in Requests :
        (\E c \in {"Exists", "Submit", "Dispatch", "Store"} : InLog(r, c)) =>
            /\ req[r].event.Topic \notin {"", Nil}
            /\ req[r].event.EventID \notin {"", Nil}

\* Delivery r was rejected: its signature header is missing or wrong, or its
\* topic header is missing.
Rejected(r) == req[r].pc # "new" /\ (req[r].sig # "good" \/ req[r].topic = "")

C20_RejectedAnswered ==
    \A r \in Requests :
        Rejected(r) =>
            /\ req[r].status = (IF req[r].sig # "good" THEN 401 ELSE 400)
            /\ req[r].pc = "done"
            /\ req[r].log = <<"WriteHeader">>
            /\ req[r].event = Event(Nil, Nil)
            /\ req[r].exists = NoExists
            /\ req[r].storeAt = NoTime

C20_RejectedStep ==
    \A r \in Requests :
        (req[r].pc = "new" /\ Rejected(r)') =>
            /\ entries' = entries
            /\ UNCHANGED <<routerVars, poolVars>>

DroppedAtSubmit(r) == req[r].sid # 0 /\ items[req[r].sid].state = "dropped"

\* C24 (as claimed): when a delivery's event was dropped by the pool with
\* ErrQueueFull and the same event ID is delivered again after it, within the
\* TTL, the second delivery is not taken for a duplicate: once it has passed
\* the dedup check it goes on to Submit.
C24_DroppedEventRedelivered ==
    \A r1, r2 \in Requests :
        ( /\ Redelivery(r1, r2)
          /\ DroppedAtSubmit(r1)
          /\ req[r2].pc \notin {"new", "check"}
          /\ now <= TTL )
        => /\ ~IsDuplicate(req[r2].exists.processed, req[r2].exists.err)
           /\ req[r2].pc = "done" => InLog(r2, "Submit")

\* Delivery r was handed to Router.Dispatch by Handler itself, and the call
\* has returned.
Dispatched(r) == req[r].derr # NotReturned

\* C31 (as claimed): without an async processor, a delivery whose Dispatch
\* call has returned was answered 200 whatever the call returned, and when it
\* returned an error, a handler's or ErrUnhandledTopic, the router's error
\* observer (the router having one) was called for it.
C31_ErrorsReportedThenDiscarded ==
    \A r \in Requests :
        (~cfgAsync /\ Dispatched(r)) =>
            /\ req[r].status = 200
            /\ (req[r].derr # NoErr /\ onError) => InLog(r, "onError")

\* C31 (amended): without an async processor, a delivery whose Dispatch call
\* has returned was answered 200 before the call and goes on (to Store, with
\* a store) whatever the call returned; a handler's error was passed to the
\* router's error observer, after Dispatch was called, exactly when the
\* router has one; ErrUnhandledTopic, returned for a topic with neither
\* handler nor fallback, and success were passed to no observer.
C31_HandlerErrorsObservedIfConfigured ==
    \A r \in Requests :
        (~cfgAsync /\ Dispatched(r)) =>
            /\ req[r].status = 200
            /\ req[r].pc = AfterHandoff(cfgDedup)
                  \/ (req[r].pc = "done" /\ (cfgDedup # "none" => InLog(r, "Store")))
            /\ req[r].derr.kind \in {"nil", "handler", "ErrUnhandledTopic"}
            /\ req[r].derr.kind = "handler" =>
                  /\ Routed(req[r].event)
                  /\ InLog(r, "onError") <=> onError
                  /\ onError => SubSeq(req[r].log, Len(BeforeHandoff) + 1, Len(BeforeHandoff) + 2)
                                    = <<"Dispatch", "onError">>
            /\ req[r].derr.kind = "ErrUnhandledTopic" =>
                  /\ ~Routed(req[r].event)
                  /\ req[r].derr = ErrUnhandledTopic(req[r].event.Topic)
                  /\ ~InLog(r, "onError")
            /\ req[r].derr = NoErr => ~InLog(r, "onError")

C31_Witness ==
    /\ onError
    /\ \E r1, r2 \in Requests :
        /\ req[r1].pc = "done"
        /\ req[r1].derr.kind = "handler"
        /\ req[r1].status = 200
        /\ InLog(r1, "onError")
        /\ req[r2].pc = "done"
        /\ req[r2].derr.kind = "ErrUnhandledTopic"
        /\ req[r2].status = 200
        /\ ~InLog(r2, "onError")

\* C36 (as claimed): with a MemoryStore as dedup store, of two deliveries
\* carrying the same event ID and handled within the TTL, overlapping or not,
\* at most one is handed to Router.Dispatch or to Submit.
C36_AtMostOnceUnderConcurrency ==
    \A r1, r2 \in Requests :
        ( /\ r1 # r2
          /\ cfgDedup = "memory"
          /\ req[r1].event.Topic # Nil
          /\ req[r2].event.Topic # Nil
          /\ req[r1].event.EventID = req[r2].event.EventID
          /\ now <= TTL )
        => Handoffs(req[r1].log) + Handoffs(req[r2].log) <= 1

\* ------------------------------------------------------------------------
\* MemoryStore properties
\* ------------------------------------------------------------------------

\* Position in storeCalls of the latest Store(id) before call k; 0 if none.
LastStoreBefore(k) ==
    LET S == {j \in 1..(k - 1) : storeCalls[j].op = "Store" /\ storeCalls[j].id = storeCalls[k].id}
    IN IF S = {} THEN 0 ELSE CHOOSE j \in S : \A i \in S : i <= j

\* Time elapsed at call k since the latest Store of its id (stored before).
Elapsed(k) == storeCalls[k].at - storeCalls[LastStoreBefore(k)].at

ExistsCalls == {k \in 1..Len(storeCalls) : storeCalls[k].op = "Exists"}

\* C15: an Exists(id) running at the clock value of the most recent Store(id)
\* returned true, and one running more than TTL after the most recent
\* Store(id) returned false, the map still holding the entry or not.
C15_FreshTrueExpiredFalse ==
    \A k \in ExistsCalls :
        LastStoreBefore(k) # 0 =>
            /\ Elapsed(k) = 0 => storeCalls[k].result
            /\ Elapsed(k) > TTL => ~storeCalls[k].result

C15_Witness ==
    /\ \E k \in ExistsCalls :
        /\ LastStoreBefore(k) # 0
        /\ Elapsed(k) > TTL
        /\ storeCalls[k].present
        /\ ~storeCalls[k].result
    /\ \E k \in ExistsCalls :
        /\ LastStoreBefore(k) = k - 1
        /\ Elapsed(k) = 0
        /\ storeCalls[k].result

\* C16 (as claimed): Exists(id) returned true exactly when id was stored and
\* less than TTL has elapsed since its latest Store.
C16_TrueIffLessThanTTL ==
    \A k \in ExistsCalls :
        storeCalls[k].result <=> (LastStoreBefore(k) # 0 /\ Elapsed(k) < TTL)

\* C16 (amended): Exists(id) returned true exactly when id was stored and at
\* most TTL has elapsed since its latest Store: false for an id never stored,
\* whatever other ids are stored, true when exactly TTL has elapsed, false
\* when more has.
C16_TrueIffWithinTTL ==
    \A k \in ExistsCalls :
        storeCalls[k].result <=> (LastStoreBefore(k) # 0 /\ Elapsed(k) <= TTL)

C16_Witness ==
    /\ \E k \in ExistsCalls :
        /\ LastStoreBefore(k) # 0
        /\ Elapsed(k) = TTL
        /\ storeCalls[k].result
    /\ \E k \in ExistsCalls :
        /\ LastStoreBefore(k) = 0
        /\ \E j \in 1..(k - 1) : storeCalls[j].op = "Store"
        /\ ~storeCalls[k].result

\* Ids a step deletes from the map.
Deleted == {id \in EventIDHeaders : entries[id] # NoTime /\ entries'[id] = NoTime}

\* Clock values from now on.
Later == now..(MaxTime + 1)

\* A step that deletes from the map is a sweep pass: it deletes only entries
\* older than TTL, for which Exists answers false at that moment, leaves
\* every other entry as it was, and changes the answer of no Exists call,
\* made at that moment or later, for any id.
C33_SweepStep ==
    Deleted # {} =>
        /\ now' = now
        /\ storeCalls' = storeCalls
        /\ \A id \in Deleted :
               /\ now - entries[id] > TTL
               /\ ~MemExists(entries, now, id)
        /\ \A id \in EventIDHeaders \ Deleted : entries'[id] = entries[id]
        /\ \A id \in EventIDHeaders, t \in Later :
               MemExists(entries', t, id) = MemExists(entries, t, id)

\* C33: the sweeper deletes only entries older than TTL: a sweep pass never
\* removes an entry for which Exists would return true at that moment, so a
\* sweep never changes the result of any Exists call.
C33_SweepRemovesOnlyExpired == [][C33_SweepStep]_vars

\* An id that was stored is gone from the map while another, whose age is
\* exactly TTL, is still there: a pass deleted the one and kept the other.
C33_Witness ==
    \E id1, id2 \in EventIDHeaders :
        /\ \E k \in 1..Len(storeCalls) : storeCalls[k].op = "Store" /\ storeCalls[k].id = id1
        /\ entries[id1] = NoTime
        /\ entries[id2] # NoTime
        /\ now - entries[id2] = TTL
        /\ MemExists(entries, now, id2)

\* The sweeper has dealt with every tick sent so far.
SweeperIdle == sw.pc = "select" /\ ~sw.tick /\ now < sw.next

\* The time of the latest tick sent (0: none yet).
LastTick == sw.next - CleanupInterval(TTL)

\* The time of the latest Store call (none: NoTime).
LastStore ==
    LET S == {storeCalls[k].at : k \in {j \in 1..Len(storeCalls) : storeCalls[j].op = "Store"}}
    IN IF S = {} THEN NoTime ELSE CHOOSE t \in S : \A u \in S : u <= t

PassStep == sw.pc = "sweep" /\ sw'.pc = "select"

\* C35 (as claimed): once Close has been called the cleanup goroutine
\* eventually exits, and no sweep pass starts after Close has returned.
C35_SweeperStopsAtClose ==
    /\ sw.done ~> sw.pc = "exited"
    /\ [][PassStep => ~sw.done]_vars

====
